---------------------------- MODULE Spec2Model ----------------------------
(***************************************************************************)
(* Model of the financial-report workflow tasks.                           *)
(*                                                                         *)
(* Text is modelled as a sequence of characters.  An ASCII character is    *)
(* the one-character string itself ("E", " ", "#"), the line break is      *)
(* "\n", the backslash is "\\", and a non-ASCII character is the string    *)
(* "uXXXX" of its code point (U+6536 U+5165, the keyword of line 253, is   *)
(* <<"u6536", "u5165">>).  Python's None is the value None below, a        *)
(* one-element sequence whose element is no character.                     *)
(***************************************************************************)
EXTENDS Integers, Sequences, FiniteSets, TLC

VARIABLES
    params,              \* Inputs of the generate_md_report task
    pc,                  \* position of main / generate_md_report
    classified_content,  \* generate_md_report: result of classify_content
    md_lines,            \* generate_md_report: the list of emitted lines
    section_number,      \* generate_md_report: running section counter
    title,               \* generate_md_report: the derived title
    md_content,          \* main: the joined document
    file_path,           \* main: the resolved target path
    fs,                  \* the file system: directories, files, file content
    outputs              \* what main returned, or the exception it raised

VARIABLES
    periods_params,      \* Inputs of the generate_periods_markdown task
    periods_pc,          \* position of its main
    now,                 \* the wall clock, in seconds
    markdown_lines,      \* its main: the list of emitted lines
    ticker_groups,       \* its main: ticker -> the periods of the ticker
    periods_outputs,     \* what its main returned, or the exception raised
    periods_calls        \* the outputs of the calls completed so far

VARIABLES
    http_task,           \* the task calling the remote API
    http_params,         \* its Inputs
    http_pc,             \* position of its main / _make_request_with_retry
    request_body,        \* generate_report_summary: the body of the POST
    attempt,             \* _make_request_with_retry: the loop variable
    net_log,             \* the requests sent and the sleeps made, in order
    response,            \* the response, or the exception, the request gave
    http_outputs         \* what its main returned, or the exception raised

VARIABLES
    pdf_params,          \* Inputs of the md_to_pdf task
    pdf_pc,              \* position of its main
    pdf_env,             \* what the libraries and the operating system do
    pdf_md_content,      \* its main: the local md_content
    pdf_path,            \* its main: the path of the PDF
    pdf_fs,              \* the files and directories the task sees
    pdf_error,           \* the exception caught at line 198
    pdf_outputs          \* what its main returned

md_vars == <<params, pc, classified_content, md_lines, section_number, title,
             md_content, file_path, fs, outputs>>

periods_vars == <<periods_params, periods_pc, now, markdown_lines,
                  ticker_groups, periods_outputs, periods_calls>>

http_vars == <<http_task, http_params, http_pc, request_body, attempt,
               net_log, response, http_outputs>>

pdf_vars == <<pdf_params, pdf_pc, pdf_env, pdf_md_content, pdf_path, pdf_fs,
              pdf_error, pdf_outputs>>

vars == <<md_vars, periods_vars, http_vars, pdf_vars>>

---------------------------------------------------------------------------
(* Bounds of the model *)

\* longest reports list drawn in Init
MaxRecords == 2

---------------------------------------------------------------------------
(* Python values and string primitives *)

None == <<"None">>

Min(a, b) == IF a < b THEN a ELSE b

Range(s) == {s[i] : i \in 1..Len(s)}

\* str.isspace() characters that the inputs use
Whitespace == {" ", "\n", "\t", "\r", "u3000"}

\* dict.get(key, default)
DictGet(d, key, default) == IF key \in DOMAIN d THEN d[key] ELSE default

\* truthiness of a str-or-None value
Truthy(v) == v # None /\ v # <<>>

\* str.strip(): drop the leading and the trailing whitespace
RECURSIVE lstrip(_)
lstrip(s) ==
    IF s = <<>> THEN <<>>
    ELSE IF Head(s) \in Whitespace THEN lstrip(Tail(s)) ELSE s

RECURSIVE rstrip(_)
rstrip(s) ==
    IF s = <<>> THEN <<>>
    ELSE IF s[Len(s)] \in Whitespace THEN rstrip(SubSeq(s, 1, Len(s) - 1))
    ELSE s

strip(s) == rstrip(lstrip(s))

\* s[:n]
Slice(s, n) == SubSeq(s, 1, Min(n, Len(s)))

\* keyword in text: case-sensitive substring containment
Contains(keyword, text) ==
    \E i \in 1..(Len(text) - Len(keyword) + 1) :
        /\ text[i] = keyword[1]
        /\ SubSeq(text, i, i + Len(keyword) - 1) = keyword

\* any(keyword in text for keyword in keywords)
AnyKeyword(keywords, text) ==
    \E k \in 1..Len(keywords) : Contains(keywords[k], text)

---------------------------------------------------------------------------
(* classify_content: keyword lists *)

financial_keywords ==
    << <<"u6536", "u5165">>,
       <<"u5229", "u6DA6">>,
       <<"u8D1F", "u503A">>,
       <<"u8D44", "u4EA7">>,
       <<"u73B0", "u91D1", "u6D41">>,
       <<"u6BDB", "u5229">>,
       <<"u80A1", "u606F">>,
       <<"u8D22", "u52A1">>,
       <<"u76C8", "u5229">>,
       <<"u8425", "u6536">>,
       <<"E", "B", "I", "T", "D", "A">>,
       <<"u6210", "u672C">>,
       <<"u8D39", "u7528">>,
       <<"u7A0E", "u6536">> >>

business_keywords ==
    << <<"u4E1A", "u52A1">>,
       <<"u8FD0", "u8425">>,
       <<"u9879", "u76EE">>,
       <<"u5E02", "u573A">>,
       <<"u4EA7", "u54C1">>,
       <<"u670D", "u52A1">>,
       <<"u6218", "u7565">>,
       <<"u6295", "u8D44">>,
       <<"u5408", "u4F5C">>,
       <<"u5E03", "u5C40">>,
       <<"u53D1", "u5C55">>,
       <<"u6269", "u5F20">>,
       <<"u7ADE", "u4E89">> >>

analysis_keywords ==
    << <<"u5206", "u6790">>,
       <<"u64CD", "u7EB5">>,
       <<"u98CE", "u9669">>,
       <<"u8BC4", "u4F30">>,
       <<"u6A21", "u578B">>,
       <<"u6307", "u6807">>,
       <<"u6BD4", "u7387">>,
       <<"u8D8B", "u52BF">>,
       <<"u9884", "u6D4B">>,
       <<"u5C55", "u671B">> >>

management_keywords ==
    << <<"u7BA1", "u7406", "u5C42">>,
       <<"u9AD8", "u7BA1">>,
       <<"u8463", "u4E8B">>,
       <<"u85AA", "u916C">>,
       <<"u6FC0", "u52B1">>,
       <<"u5458", "u5DE5">>,
       <<"u4EBA", "u4E8B">>,
       <<"u53D8", "u52A8">>,
       <<"u4EFB", "u547D">>,
       <<"u79BB", "u804C">> >>

governance_keywords ==
    << <<"u6CBB", "u7406">>,
       <<"u5408", "u89C4">>,
       <<"u76D1", "u7BA1">>,
       <<"u5BA1", "u8BA1">>,
       <<"u5185", "u63A7">>,
       <<"u5236", "u5EA6">>,
       <<"u89C4", "u8303">>,
       <<"u900F", "u660E", "u5EA6">>,
       <<"u8D23", "u4EFB">> >>

---------------------------------------------------------------------------
(* classify_content *)

\* number of answer characters that enter the probe text
ProbeLimit == 100

\* the categories dict as created empty
EmptyCategories ==
    [financial |-> <<>>, business |-> <<>>, analysis |-> <<>>,
     management |-> <<>>, governance |-> <<>>, other |-> <<>>]

\* the value an operator yields when the code raises
Raised(exc) == [raised |-> exc]

IsRaised(v) == DOMAIN v = {"raised"}

\* text_to_check with the whole answer, the slice left out
text_to_check_whole(question, answer) ==
    question \o <<" ">> \o answer

\* question + " " + answer[:100]
text_to_check(question, answer) ==
    question \o <<" ">> \o Slice(answer, ProbeLimit)

\* CategoryKey with the financial test moved behind the governance test
CategoryKey_financial_last(text) ==
    IF AnyKeyword(business_keywords, text) THEN "business"
    ELSE IF AnyKeyword(analysis_keywords, text) THEN "analysis"
    ELSE IF AnyKeyword(management_keywords, text) THEN "management"
    ELSE IF AnyKeyword(governance_keywords, text) THEN "governance"
    ELSE IF AnyKeyword(financial_keywords, text) THEN "financial"
    ELSE "other"

\* the if / elif chain of one loop iteration: the key of the list the
\* report is appended to
CategoryKey(text) ==
    IF AnyKeyword(financial_keywords, text) THEN "financial"
    ELSE IF AnyKeyword(business_keywords, text) THEN "business"
    ELSE IF AnyKeyword(analysis_keywords, text) THEN "analysis"
    ELSE IF AnyKeyword(management_keywords, text) THEN "management"
    ELSE IF AnyKeyword(governance_keywords, text) THEN "governance"
    ELSE "other"

\* AppendTo when the business branch forgets classified = True: the report
\* is appended to 'other' as well
AppendTo_unflagged(categories, key, report) ==
    IF key = "business"
    THEN [categories EXCEPT !["business"] = Append(@, report),
                            !["other"] = Append(@, report)]
    ELSE [categories EXCEPT ![key] = Append(@, report)]

\* AppendTo with list.insert(0, report)
AppendTo_front(categories, key, report) ==
    [categories EXCEPT ![key] = <<report>> \o @]

\* list.append(report) on categories[key]
AppendTo(categories, key, report) ==
    [categories EXCEPT ![key] = Append(@, report)]

\* classify_loop with classified = False set once before the loop: after a
\* keyword match no later record reaches 'other'
RECURSIVE classify_loop_sticky(_, _, _)
classify_loop_sticky(reports, i, categories) ==
    IF i > Len(reports) THEN categories
    ELSE LET report == reports[i]
             q == DictGet(report, "question", <<>>)
             a == DictGet(report, "answer", <<>>)
         IN  IF q = None \/ a = None
             THEN Raised("AttributeError")
             ELSE LET question == strip(q)
                      answer == strip(a)
                      key == CategoryKey(text_to_check(question, answer))
                      classified ==
                          \E c \in DOMAIN categories \ {"other"} :
                              categories[c] # <<>>
                  IN  IF question = <<>> \/ answer = <<>>
                      THEN classify_loop_sticky(reports, i + 1, categories)
                      ELSE IF key = "other" /\ classified
                      THEN classify_loop_sticky(reports, i + 1, categories)
                      ELSE classify_loop_sticky(reports, i + 1,
                               [categories EXCEPT ![key] = Append(@, report)])

\* the for loop over reports, from its i-th iteration on
RECURSIVE classify_loop(_, _, _)
classify_loop(reports, i, categories) ==
    IF i > Len(reports) THEN categories
    ELSE LET report == reports[i]
             q == DictGet(report, "question", <<>>)
             a == DictGet(report, "answer", <<>>)
         IN  IF q = None \/ a = None
             THEN Raised("AttributeError")   \* None has no strip()
             ELSE LET question == strip(q)
                      answer == strip(a)
                  IN  IF question = <<>> \/ answer = <<>>
                      THEN classify_loop(reports, i + 1, categories)
                      ELSE classify_loop(reports, i + 1,
                               AppendTo(categories,
                                   CategoryKey(text_to_check(question, answer)),
                                   report))

classify_content(reports) == classify_loop(reports, 1, EmptyCategories)

---------------------------------------------------------------------------
(* Inputs *)

Rec(q, a) == [question |-> q, answer |-> a]

\* n filler characters
Pad(n) == [i \in 1..n |-> "x"]

KwRevenue == <<"u6536", "u5165">>
KwRisk == <<"u98CE", "u9669">>

RecordPool ==
    { \* financial (the worked example of the specification)
      Rec(<<"u8425", "u6536", "u589E", "u957F", "u5982", "u4F55", "uFF1F">>,
          <<"u8425", "u6536", "u540C", "u6BD4", "u589E", "u957F", "2", "0", "%">>),
      \* management (the worked example of the specification)
      Rec(<<"u7BA1", "u7406", "u5C42", "u53D8", "u52A8">>,
          <<"C", "F", "O", "u79BB", "u804C">>),
      \* financial and governance keywords together; padded question
      Rec(<<" ", "u8D22", "u52A1", "u6CBB", "u7406", "\n">>,
          <<"a", "\\", "n", "b", "\\", "n", "c">>),
      \* business, keyword in the answer only
      Rec(<<"Q", "1">>, <<"\t", "u5E02", "u573A", " ", "u6218", "u7565">>),
      \* analysis and management keywords together
      Rec(<<"u7BA1", "u7406", "u5C42", "u5206", "u6790">>, <<"o", "k">>),
      \* governance
      Rec(<<"u5BA1", "u8BA1">>, <<"\\", "\\", "n", "n">>),
      \* no keyword: the lower-case spelling is not the keyword
      Rec(<<"e", "b", "i", "t", "d", "a">>, <<"n", "/", "a">>),
      \* whitespace-only answer
      Rec(KwRevenue, <<" ", "\n">>),
      \* no question key
      [answer |-> KwRevenue],
      \* null answer
      Rec(<<"Q", "2">>, None),
      \* keyword ends at answer character 100
      Rec(<<"Q">>, Pad(ProbeLimit - 2) \o KwRevenue),
      \* the same behind leading whitespace
      Rec(<<"Q", " ">>, <<" ", " ">> \o Pad(ProbeLimit - 2) \o KwRevenue),
      \* keyword straddles answer character 100
      Rec(<<"Q">>, Pad(ProbeLimit - 1) \o KwRevenue),
      \* the same first 100 characters, another keyword behind them
      Rec(<<"Q">>, Pad(ProbeLimit - 1) \o <<"u6536">> \o KwRisk) }

RECURSIVE SeqsUpTo(_, _)
SeqsUpTo(S, n) ==
    IF n = 0 THEN {<<>>}
    ELSE LET shorter == SeqsUpTo(S, n - 1)
         IN  shorter \cup {Append(s, x) : s \in shorter, x \in S}

ReportLists == SeqsUpTo(RecordPool, MaxRecords)

CompanyNames == {None, <<>>, <<"A", "B", "C", " ", "C", "o", "r", "p">>}

---------------------------------------------------------------------------
(* generate_md_report *)

Digits == <<"0", "1", "2", "3", "4", "5", "6", "7", "8", "9">>

\* str(n) of a non-negative integer, as an f-string formats it
RECURSIVE str(_)
str(n) ==
    IF n < 10 THEN <<Digits[n + 1]>>
    ELSE str(n \div 10) \o <<Digits[(n % 10) + 1]>>

\* the first index at which the backslash-n pair starts in s, 0 if none
FindEscape(s) ==
    LET hits == {i \in 1..(Len(s) - 1) : s[i] = "\\" /\ s[i + 1] = "n"}
    IN  IF hits = {} THEN 0 ELSE CHOOSE i \in hits : \A j \in hits : i <= j

\* str_replace with count = 1: the first pair only
str_replace_first(s) ==
    LET i == FindEscape(s)
    IN  IF i = 0 THEN s
        ELSE SubSeq(s, 1, i - 1) \o <<"\n">> \o SubSeq(s, i + 2, Len(s))

\* answer.replace("\\n", "\n"): every backslash-n pair, found left to right
RECURSIVE str_replace(_)
str_replace(s) ==
    LET i == FindEscape(s)
    IN  IF i = 0 THEN s
        ELSE SubSeq(s, 1, i - 1) \o <<"\n">>
                 \o str_replace(SubSeq(s, i + 2, Len(s)))

\* "\n".join(lines)
RECURSIVE join(_)
join(lines) ==
    IF lines = <<>> THEN <<>>
    ELSE IF Len(lines) = 1 THEN lines[1]
    ELSE lines[1] \o <<"\n">> \o join(Tail(lines))

ReportLabel == <<"u8D22", "u52A1", "u5206", "u6790", "u62A5", "u544A">>

\* "({year}Q{quarter})"
PeriodSuffix(year, quarter) ==
    <<"(">> \o str(year) \o <<"Q">> \o str(quarter) \o <<")">>

\* make_title testing 'company_name is not None' in place of its truth
make_title_not_none(company_name, year, quarter) ==
    IF company_name # None
    THEN company_name \o <<" ">> \o ReportLabel \o <<" ">>
             \o PeriodSuffix(year, quarter)
    ELSE ReportLabel \o <<" ">> \o PeriodSuffix(year, quarter)

\* the title of lines 98-103
make_title(company_name, year, quarter) ==
    IF Truthy(company_name)
    THEN company_name \o <<" ">> \o ReportLabel \o <<" ">>
             \o PeriodSuffix(year, quarter)
    ELSE ReportLabel \o <<" ">> \o PeriodSuffix(year, quarter)

\* the three lines "", "---", ""
Separator == << <<>>, <<"-", "-", "-">>, <<>> >>

\* the six lines of one Q&A block under the given heading
qa_block(heading, processed_answer) ==
    <<heading, <<>>, processed_answer, <<>>, <<"-", "-", "-">>, <<>>>>

\* f"## {section_number}. {question}"
financial_heading(n, question) ==
    <<"#", "#", " ">> \o str(n) \o <<".", " ">> \o question

\* f"### {section_number}.{subsection_number} {question}"
subsection_heading(n, m, question) ==
    <<"#", "#", "#", " ">> \o str(n) \o <<".">> \o str(m) \o <<" ">>
        \o question

\* the loop over financial_items from its i-th item on; st holds the
\* lines and the section counter
RECURSIVE financial_loop(_, _, _)
financial_loop(items, i, st) ==
    IF i > Len(items) THEN st
    ELSE LET question == strip(DictGet(items[i], "question", <<>>))
             answer == strip(DictGet(items[i], "answer", <<>>))
         IN  IF question # <<>> /\ answer # <<>>
             THEN financial_loop(items, i + 1,
                      [lines |-> st.lines \o
                           qa_block(financial_heading(st.n, question),
                                    str_replace(answer)),
                       n |-> st.n + 1])
             ELSE financial_loop(items, i + 1, st)

sections ==
    << [key |-> "business",
        title |-> <<"u4E1A", "u52A1", "u8FD0", "u8425", "u5206", "u6790">>],
       [key |-> "analysis",
        title |-> <<"u4E13", "u9879", "u5206", "u6790">>],
       [key |-> "management",
        title |-> <<"u7BA1", "u7406", "u5C42", "u5206", "u6790">>],
       [key |-> "governance",
        title |-> <<"u516C", "u53F8", "u6CBB", "u7406", "u4E0E", "u5408",
                    "u89C4">>],
       [key |-> "other",
        title |-> <<"u5176", "u4ED6", "u4FE1", "u606F">>] >>

\* f"## {section_number}. {section_title}"
section_heading(n, section_title) ==
    <<"#", "#", " ">> \o str(n) \o <<".", " ">> \o section_title

\* subsection_loop without subsection_number += 1
RECURSIVE subsection_loop_noinc(_, _, _, _)
subsection_loop_noinc(items, i, n, st) ==
    IF i > Len(items) THEN st
    ELSE LET question == strip(DictGet(items[i], "question", <<>>))
             answer == strip(DictGet(items[i], "answer", <<>>))
         IN  IF question # <<>> /\ answer # <<>>
             THEN subsection_loop_noinc(items, i + 1, n,
                      [lines |-> st.lines \o
                           qa_block(subsection_heading(n, st.m, question),
                                    str_replace(answer)),
                       m |-> st.m])
             ELSE subsection_loop_noinc(items, i + 1, n, st)

\* the loop over the items of one section from its i-th item on; st holds
\* the lines and the subsection counter
RECURSIVE subsection_loop(_, _, _, _)
subsection_loop(items, i, n, st) ==
    IF i > Len(items) THEN st
    ELSE LET question == strip(DictGet(items[i], "question", <<>>))
             answer == strip(DictGet(items[i], "answer", <<>>))
         IN  IF question # <<>> /\ answer # <<>>
             THEN subsection_loop(items, i + 1, n,
                      [lines |-> st.lines \o
                           qa_block(subsection_heading(n, st.m, question),
                                    str_replace(answer)),
                       m |-> st.m + 1])
             ELSE subsection_loop(items, i + 1, n, st)

\* sections_loop with section_number += 1 outside the if: an empty section
\* consumes a number
RECURSIVE sections_loop_gaps(_, _, _)
sections_loop_gaps(classified, k, st) ==
    IF k > Len(sections) THEN st
    ELSE LET items == classified[sections[k].key]
         IN  IF items # <<>>
             THEN LET opened == st.lines \o
                          <<section_heading(st.n, sections[k].title), <<>>>>
                      body == subsection_loop(items, 1, st.n,
                                  [lines |-> opened, m |-> 1])
                  IN  sections_loop_gaps(classified, k + 1,
                          [lines |-> body.lines, n |-> st.n + 1])
             ELSE sections_loop_gaps(classified, k + 1,
                      [lines |-> st.lines, n |-> st.n + 1])

\* sections_loop testing only 'section_key in classified_content': an empty
\* section gets its heading
RECURSIVE sections_loop_noguard(_, _, _)
sections_loop_noguard(classified, k, st) ==
    IF k > Len(sections) THEN st
    ELSE LET items == classified[sections[k].key]
             opened == st.lines \o
                 <<section_heading(st.n, sections[k].title), <<>>>>
             body == subsection_loop(items, 1, st.n,
                         [lines |-> opened, m |-> 1])
         IN  sections_loop_noguard(classified, k + 1,
                 [lines |-> body.lines, n |-> st.n + 1])

\* the loop over sections from its k-th entry on; st holds the lines and
\* the section counter
RECURSIVE sections_loop(_, _, _)
sections_loop(classified, k, st) ==
    IF k > Len(sections) THEN st
    ELSE LET items == classified[sections[k].key]
         IN  IF items # <<>>
             THEN LET opened == st.lines \o
                          <<section_heading(st.n, sections[k].title), <<>>>>
                      body == subsection_loop(items, 1, st.n,
                                  [lines |-> opened, m |-> 1])
                  IN  sections_loop(classified, k + 1,
                          [lines |-> body.lines, n |-> st.n + 1])
             ELSE sections_loop(classified, k + 1, st)

---------------------------------------------------------------------------
(* The generate_md_report task *)

Years == {2024}
Quarters == {3}

WellFormedData ==
    {[year |-> y, quarter |-> q, reports |-> r] :
        y \in Years, q \in Quarters, r \in ReportLists}

\* report_data without one of its required fields
MalformedReportData ==
    { [status |-> <<"o", "k">>],
      [data |-> [quarter |-> 3, reports |-> <<>>]],
      [data |-> [year |-> 2024, reports |-> <<>>]],
      [data |-> [year |-> 2024, quarter |-> 3]] }

\* save_path: absent, a bare file name, a file in a directory, a directory
SavePaths ==
    { None,
      <<"r", ".", "m", "d">>,
      <<"o", "u", "t", "/", "r", ".", "m", "d">>,
      <<"o", "u", "t", "/">> }

OutputFilenames == {None, <<"r", "e", "p">>}

\* every reports list with the default path inputs, and every path input
\* with the reports lists of at most one record
ParamsSet ==
    {p \in [report_data : {[data |-> d] : d \in WellFormedData}
                              \cup MalformedReportData,
            company_name : CompanyNames,
            save_path : SavePaths,
            output_filename : OutputFilenames] :
        \/ p.save_path = None /\ p.output_filename = None
        \/ /\ "data" \in DOMAIN p.report_data
           /\ "reports" \in DOMAIN p.report_data.data
           /\ Len(p.report_data.data.reports) <= 1}

\* the file system before the task runs: none of the task's directories
\* and files exists; files maps the path of a file to its content
EmptyFs == [dirs |-> {}, files |-> <<>>]

\* the file at path created or truncated, then holding content
with_file(filesystem, path, content) ==
    [filesystem EXCEPT !.files =
        [q \in DOMAIN @ \cup {path} |-> IF q = path THEN content ELSE @[q]]]

\* the md_to_pdf task is not running
PdfIdle ==
    /\ pdf_params = <<>>
    /\ pdf_pc = "idle"
    /\ pdf_env = <<>>
    /\ pdf_md_content = <<>>
    /\ pdf_path = <<>>
    /\ pdf_fs = EmptyFs
    /\ pdf_error = <<>>
    /\ pdf_outputs = <<>>

\* the generate_md_report task is not running
MdIdle ==
    /\ params = <<>>
    /\ pc = "idle"
    /\ classified_content = EmptyCategories
    /\ md_lines = <<>>
    /\ section_number = 1
    /\ title = <<>>
    /\ md_content = <<>>
    /\ file_path = <<>>
    /\ fs = EmptyFs
    /\ outputs = <<>>

\* the generate_periods_markdown task is not running
PeriodsIdle ==
    /\ periods_params = <<>>
    /\ periods_pc = "idle"
    /\ now = 0
    /\ markdown_lines = <<>>
    /\ ticker_groups = <<>>
    /\ periods_outputs = <<>>
    /\ periods_calls = <<>>

\* no task is calling the remote API
HttpIdle ==
    /\ http_task = "none"
    /\ http_params = <<>>
    /\ http_pc = "idle"
    /\ request_body = <<>>
    /\ attempt = 0
    /\ net_log = <<>>
    /\ response = <<>>
    /\ http_outputs = <<>>

Init ==
    /\ PeriodsIdle
    /\ HttpIdle
    /\ PdfIdle
    /\ params \in ParamsSet
    /\ pc = "main"
    /\ classified_content = EmptyCategories
    /\ md_lines = <<>>
    /\ section_number = 1
    /\ title = <<>>
    /\ md_content = <<>>
    /\ file_path = <<>>
    /\ fs = EmptyFs
    /\ outputs = <<>>

\* main wraps every exception in a ValueError
MainRaise ==
    /\ pc' = "raised"
    /\ outputs' = Raised("ValueError")

\* main, lines 33-36: the four subscripts; a missing key is a KeyError
MainExtract ==
    /\ UNCHANGED <<periods_vars, http_vars, pdf_vars>>
    /\ pc = "main"
    /\ IF /\ "data" \in DOMAIN params.report_data
          /\ {"year", "quarter", "reports"}
                 \subseteq DOMAIN params.report_data.data
       THEN pc' = "classify" /\ UNCHANGED outputs
       ELSE MainRaise
    /\ UNCHANGED <<params, classified_content, md_lines, section_number,
                   title, md_content, file_path, fs>>

\* generate_md_report, lines 88-93
GenClassify ==
    /\ UNCHANGED <<periods_vars, http_vars, pdf_vars>>
    /\ pc = "classify"
    /\ LET result == classify_content(params.report_data.data.reports)
       IN  IF IsRaised(result)
           THEN MainRaise /\ UNCHANGED classified_content
           ELSE /\ pc' = "title"
                /\ classified_content' = result
                /\ UNCHANGED outputs
    /\ UNCHANGED <<params, md_lines, section_number, title, md_content,
                   file_path, fs>>

\* generate_md_report, lines 95-105
GenTitle ==
    /\ UNCHANGED <<periods_vars, http_vars, pdf_vars>>
    /\ pc = "title"
    /\ title' = make_title(params.company_name,
                           params.report_data.data.year,
                           params.report_data.data.quarter)
    /\ md_lines' = <<<<"#", " ">> \o title'>> \o Separator
    /\ pc' = "financial"
    /\ UNCHANGED <<params, classified_content, section_number, md_content,
                   file_path, fs, outputs>>

\* generate_md_report, lines 110-131
GenFinancial ==
    /\ UNCHANGED <<periods_vars, http_vars, pdf_vars>>
    /\ pc = "financial"
    /\ LET financial_items == classified_content["financial"]
           st == financial_loop(financial_items, 1,
                                [lines |-> md_lines, n |-> 1])
       IN  IF financial_items # <<>>
           THEN /\ md_lines' = st.lines \o Separator
                /\ section_number' = st.n
           ELSE /\ md_lines' = md_lines
                /\ section_number' = 1
    /\ pc' = "sections"
    /\ UNCHANGED <<params, classified_content, title, md_content, file_path,
                   fs, outputs>>

\* generate_md_report, lines 134-165
GenSections ==
    /\ UNCHANGED <<periods_vars, http_vars, pdf_vars>>
    /\ pc = "sections"
    /\ LET st == sections_loop(classified_content, 1,
                               [lines |-> md_lines, n |-> section_number])
       IN  /\ md_lines' = st.lines
           /\ section_number' = st.n
    /\ pc' = "footer"
    /\ UNCHANGED <<params, classified_content, title, md_content, file_path,
                   fs, outputs>>

\* generate_md_report, lines 168-174, and the assignment of line 39
GenFooter ==
    /\ UNCHANGED <<periods_vars, http_vars, pdf_vars>>
    /\ pc = "footer"
    /\ md_lines' = md_lines \o Separator
    /\ md_content' = join(md_lines')
    /\ pc' = "generated"
    /\ UNCHANGED <<params, classified_content, section_number, title,
                   file_path, fs, outputs>>

storage_dir ==
    <<"/", "o", "o", "m", "o", "l", "-", "d", "r", "i", "v", "e", "r", "/",
      "o", "o", "m", "o", "l", "-", "s", "t", "o", "r", "a", "g", "e">>

\* the characters re.sub(r'[<>:"/\\|?*]', '_', ...) replaces
UnsafeChars == {"<", ">", ":", "\"", "/", "\\", "|", "?", "*"}

\* re.sub(...) followed by replace(' ', '_'), lines 57-58
sanitize(name) ==
    [i \in 1..Len(name) |->
        IF name[i] \in UnsafeChars \/ name[i] = " " THEN "_" ELSE name[i]]

\* the output_filename of lines 50-61
default_filename(output_filename, company_name) ==
    IF Truthy(output_filename) THEN output_filename
    ELSE IF Truthy(company_name)
         THEN sanitize(company_name)
                  \o <<"_", "f", "i", "n", "a", "n", "c", "i", "a", "l", "_",
                       "r", "e", "p", "o", "r", "t">>
         ELSE <<"f", "i", "n", "a", "n", "c", "i", "a", "l", "_",
                "r", "e", "p", "o", "r", "t">>

\* posixpath.join(a, b)
path_join(a, b) ==
    IF b # <<>> /\ b[1] = "/" THEN b
    ELSE IF a = <<>> \/ a[Len(a)] = "/" THEN a \o b
    ELSE a \o <<"/">> \o b

\* posixpath.dirname(p)
path_dirname(p) ==
    LET slashes == {i \in 1..Len(p) : p[i] = "/"}
        i == IF slashes = {} THEN 0
             ELSE CHOOSE k \in slashes : \A j \in slashes : j <= k
        head == SubSeq(p, 1, i)
        body == {k \in 1..Len(head) : head[k] # "/"}
        last == IF body = {} THEN 0
                ELSE CHOOSE k \in body : \A j \in body : j <= k
    IN  IF body = {} THEN head ELSE SubSeq(head, 1, last)

\* os.makedirs(d, exist_ok=True) when it succeeds: d and its ancestors exist
makedirs(filesystem, d) ==
    [filesystem EXCEPT !.dirs =
        @ \cup {d} \cup {SubSeq(d, 1, i - 1) :
                            i \in {k \in 2..Len(d) : d[k] = "/"}}]

\* f"{output_filename}_{year}Q{quarter}.md", line 63
md_filename(output_filename, year, quarter) ==
    output_filename \o <<"_">> \o str(year) \o <<"Q">> \o str(quarter)
        \o <<".", "m", "d">>

\* the status message of line 78
status_message(reports) ==
    <<"S", "u", "c", "c", "e", "s", "s", "f", "u", "l", "l", "y", " ",
      "g", "e", "n", "e", "r", "a", "t", "e", "d", " ", "M", "D", " ",
      "r", "e", "p", "o", "r", "t", " ", "w", "i", "t", "h", " ">>
        \o str(Len(reports))
        \o <<" ", "Q", "&", "A", " ", "i", "t", "e", "m", "s">>

\* main, lines 41-64: the target path; os.makedirs of line 47 may fail
MainResolvePath ==
    /\ UNCHANGED <<periods_vars, http_vars, pdf_vars>>
    /\ pc = "generated"
    /\ IF Truthy(params.save_path)
       THEN /\ file_path' = params.save_path
            /\ pc' = "mkdir"
            /\ UNCHANGED <<fs, outputs>>
       ELSE \E ok \in BOOLEAN :
                IF ok
                THEN /\ fs' = makedirs(fs, storage_dir)
                     /\ file_path' =
                            path_join(storage_dir,
                                md_filename(
                                    default_filename(params.output_filename,
                                                     params.company_name),
                                    params.report_data.data.year,
                                    params.report_data.data.quarter))
                     /\ pc' = "mkdir"
                     /\ UNCHANGED outputs
                ELSE MainRaise /\ UNCHANGED <<fs, file_path>>
    /\ UNCHANGED <<params, classified_content, md_lines, section_number,
                   title, md_content>>

\* main, lines 66-69: the directory of the target; os.makedirs may fail
MainMakeDir ==
    /\ UNCHANGED <<periods_vars, http_vars, pdf_vars>>
    /\ pc = "mkdir"
    /\ LET dir_path == path_dirname(file_path)
       IN  IF dir_path # <<>>
           THEN \E ok \in BOOLEAN :
                    IF ok
                    THEN /\ fs' = makedirs(fs, dir_path)
                         /\ pc' = "write"
                         /\ UNCHANGED outputs
                    ELSE MainRaise /\ UNCHANGED fs
           ELSE /\ pc' = "write"
                /\ UNCHANGED <<fs, outputs>>
    /\ UNCHANGED <<params, classified_content, md_lines, section_number,
                   title, md_content, file_path>>

\* main, lines 71-73: open(file_path, 'w') fails on a directory and may
\* fail otherwise; once it succeeded the file exists, empty, and f.write
\* may still fail
MainWrite ==
    /\ UNCHANGED <<periods_vars, http_vars, pdf_vars>>
    /\ pc = "write"
    /\ \E outcome \in {"written", "open fails", "write fails"} :
           LET is_dir == file_path \in fs.dirs \/ file_path[Len(file_path)] = "/"
           IN  IF is_dir \/ outcome = "open fails"
               THEN MainRaise /\ UNCHANGED fs
               ELSE IF outcome = "write fails"
               THEN MainRaise /\ fs' = with_file(fs, file_path, <<>>)
               ELSE /\ fs' = with_file(fs, file_path, md_content)
                    /\ pc' = "return"
                    /\ UNCHANGED outputs
    /\ UNCHANGED <<params, classified_content, md_lines, section_number,
                   title, md_content, file_path>>

\* main, lines 75-80
MainReturn ==
    /\ UNCHANGED <<periods_vars, http_vars, pdf_vars>>
    /\ pc = "return"
    /\ outputs' = [md_content |-> md_content,
                   file_path |-> file_path,
                   status |-> status_message(params.report_data.data.reports),
                   title |-> title]
    /\ pc' = "done"
    /\ UNCHANGED <<params, classified_content, md_lines, section_number,
                   title, md_content, file_path, fs>>

Next ==
    \/ MainExtract
    \/ GenClassify
    \/ GenTitle
    \/ GenFinancial
    \/ GenSections
    \/ GenFooter
    \/ MainResolvePath
    \/ MainMakeDir
    \/ MainWrite
    \/ MainReturn

Spec == Init /\ [][Next]_vars

---------------------------------------------------------------------------
(* Vocabulary of the properties.  These definitions say what the           *)
(* specification's words mean; none of them is used by the model above.    *)

\* the reports list handed to classify_content
Reports == params.report_data.data.reports

\* classify_content has just returned its buckets
Classified == pc = "title"

CategoryOrder ==
    <<"financial", "business", "analysis", "management", "governance",
      "other">>

KeywordLists ==
    <<financial_keywords, business_keywords, analysis_keywords,
      management_keywords, governance_keywords>>

\* a text value with at least one character that is not whitespace
NonBlank(v) == v # None /\ \E i \in 1..Len(v) : v[i] \notin Whitespace

\* the record has a question and an answer that are not blank
Kept(r) ==
    /\ {"question", "answer"} \subseteq DOMAIN r
    /\ NonBlank(r.question)
    /\ NonBlank(r.answer)

\* the text from its first to its last non-whitespace character
Trimmed(v) ==
    LET idx == {i \in 1..Len(v) : v[i] \notin Whitespace}
        first == CHOOSE i \in idx : \A j \in idx : i <= j
        last == CHOOSE i \in idx : \A j \in idx : j <= i
    IN  IF idx = {} THEN <<>> ELSE SubSeq(v, first, last)

\* the first n characters of a text
Prefix(v, n) == IF Len(v) <= n THEN v ELSE SubSeq(v, 1, n)

\* the probe text of a kept record
ProbeOf(r) ==
    Trimmed(r.question) \o <<" ">> \o Prefix(Trimmed(r.answer), 100)

\* w occurs in t as a contiguous run of equal characters
Occurs(w, t) ==
    \E i \in 0..(Len(t) - Len(w)) :
        t[i + 1] = w[1] /\ \A j \in 2..Len(w) : t[i + j] = w[j]

\* the positions in CategoryOrder of the keyword lists matching the probe
MatchingLists(r) ==
    LET probe == ProbeOf(r)
    IN  {k \in 1..Len(KeywordLists) :
            \E kw \in Range(KeywordLists[k]) : Occurs(kw, probe)}

\* the category the specification gives a kept record
SpecCategory(r) ==
    LET matching == MatchingLists(r)
    IN  IF matching = {} THEN "other"
        ELSE CategoryOrder[CHOOSE k \in matching :
                               \A m \in matching : k <= m]

\* how often r occurs in the sequence
Occurrences(seq, r) == Cardinality({i \in 1..Len(seq) : seq[i] = r})

\* the buckets that hold r
BucketsOf(buckets, r) ==
    {c \in Range(CategoryOrder) : r \in Range(buckets[c])}

\* every record found in some bucket
Bucketed(buckets) == UNION {Range(buckets[c]) : c \in Range(CategoryOrder)}

\* the subsequence of the input made of the members of the bucket
InputOrder(reports, bucket) ==
    LET member(r) == r \in Range(bucket)
    IN  SelectSeq(reports, member)

---------------------------------------------------------------------------
(* C1: the six buckets returned by classify_content hold exactly the       *)
(* input records whose question and answer are both non-blank: each such   *)
(* record is in exactly one bucket, as many times as it occurs in the      *)
(* input, and a record with a blank or missing question or answer is in    *)
(* no bucket.                                                              *)
C1_BucketsPartitionKept ==
    Classified =>
        /\ Bucketed(classified_content) \subseteq Range(Reports)
        /\ \A r \in Range(Reports) :
             IF Kept(r)
             THEN /\ Cardinality(BucketsOf(classified_content, r)) = 1
                  /\ \A c \in BucketsOf(classified_content, r) :
                       Occurrences(classified_content[c], r)
                           = Occurrences(Reports, r)
             ELSE BucketsOf(classified_content, r) = {}

\* a batch of a kept record and a dropped one has been classified
C1_Witness ==
    /\ Classified
    /\ Len(Reports) = 2
    /\ Kept(Reports[1])
    /\ ~Kept(Reports[2])
    /\ Bucketed(classified_content) = {Reports[1]}

(* C2: every kept record is in the bucket of the first category, in the    *)
(* order financial, business, analysis, management, governance, one of     *)
(* whose keywords occurs in its probe text, and in 'other' when none       *)
(* does; a probe with a financial keyword always means the financial       *)
(* bucket.                                                                 *)
C2_FirstMatchingCategory ==
    Classified =>
        \A r \in Range(Reports) :
            Kept(r) =>
                /\ r \in Range(classified_content[SpecCategory(r)])
                /\ (1 \in MatchingLists(r)
                        => BucketsOf(classified_content, r) = {"financial"})

\* a record matching the financial and a later list sits in financial, and
\* one matching no list sits in other
C2_Witness ==
    /\ Classified
    /\ \E r \in Range(classified_content["financial"]) :
           Cardinality(MatchingLists(r)) >= 2
    /\ \E r \in Range(classified_content["other"]) : MatchingLists(r) = {}

(* C3: the bucket a record lands in within a batch is the bucket it lands  *)
(* in when it is classified alone, as a one-element list.                  *)
C3_BatchIndependent ==
    Classified =>
        \A i \in 1..Len(Reports) :
            BucketsOf(classified_content, Reports[i])
                = BucketsOf(classify_content(<<Reports[i]>>), Reports[i])

\* a keyword-matching record precedes one that matches nothing
C3_Witness ==
    /\ Classified
    /\ Len(Reports) = 2
    /\ Reports[1] \in Range(classified_content["business"])
    /\ Reports[2] \in Range(classified_content["other"])

(* C4: every bucket lists its records in the relative order they have in   *)
(* the input list.                                                         *)
C4_InputOrderKept ==
    Classified =>
        \A c \in Range(CategoryOrder) :
            classified_content[c] = InputOrder(Reports, classified_content[c])

\* two different records of the same category
C4_Witness ==
    /\ Classified
    /\ \E c \in Range(CategoryOrder) :
           /\ Len(classified_content[c]) = 2
           /\ classified_content[c][1] # classified_content[c][2]

(* C5: two kept records with the same trimmed question and the same first  *)
(* 100 characters of the trimmed answer are in the same bucket, whatever   *)
(* follows the 100th character of the answer.                              *)
C5_ProbeDecides ==
    Classified =>
        \A r1, r2 \in Range(Reports) :
            ( /\ Kept(r1) /\ Kept(r2)
              /\ Trimmed(r1.question) = Trimmed(r2.question)
              /\ Prefix(Trimmed(r1.answer), 100)
                     = Prefix(Trimmed(r2.answer), 100) )
            => BucketsOf(classified_content, r1)
                   = BucketsOf(classified_content, r2)

\* two records that differ only behind the 100th answer character, one of
\* them with a keyword there
C5_Witness ==
    /\ Classified
    /\ \E r1, r2 \in Range(Reports) :
           /\ Kept(r1) /\ Kept(r2)
           /\ r1.question = r2.question
           /\ r1.answer # r2.answer
           /\ Prefix(r1.answer, 100) = Prefix(r2.answer, 100)
           /\ \E kw \in Range(analysis_keywords) : Occurs(kw, r2.answer)
           /\ r2 \in Range(classified_content["other"])

---------------------------------------------------------------------------
(* Vocabulary of the properties about the generated document. *)

\* generate_md_report has returned the document
Generated == pc = "generated"

\* the lines of a text: the runs between its line breaks
DocLines(doc) ==
    LET nl == {i \in 1..Len(doc) : doc[i] = "\n"}
        n == Cardinality(nl) + 1
        brk(k) == IF k = 0 THEN 0
                  ELSE IF k = n THEN Len(doc) + 1
                  ELSE CHOOSE i \in nl : Cardinality({j \in nl : j < i}) = k - 1
    IN  [k \in 1..n |-> SubSeq(doc, brk(k - 1) + 1, brk(k) - 1)]

StartsWith(line, prefix) ==
    /\ Len(line) >= Len(prefix)
    /\ SubSeq(line, 1, Len(prefix)) = prefix

\* a second-level heading line
IsH2(line) == StartsWith(line, <<"#", "#", " ">>)

\* a third-level heading line
IsH3(line) == StartsWith(line, <<"#", "#", "#", " ">>)

IsHeading(line) == IsH2(line) \/ IsH3(line)

\* the number written by a run of decimal digits, -1 if it is no such run
RECURSIVE ParseNat(_)
ParseNat(ds) ==
    IF ds = <<>> \/ ds[Len(ds)] \notin Range(Digits) THEN -1
    ELSE LET last == (CHOOSE d \in 1..10 : Digits[d] = ds[Len(ds)]) - 1
             front == SubSeq(ds, 1, Len(ds) - 1)
         IN  IF front = <<>> THEN last
             ELSE IF ParseNat(front) < 0 THEN -1
             ELSE 10 * ParseNat(front) + last

\* the N of a line '## N. ...', -1 if the line has no such form
H2Number(line) ==
    LET rest == SubSeq(line, 4, Len(line))
        dots == {i \in 1..Len(rest) : rest[i] = "."}
        dot == CHOOSE i \in dots : \A j \in dots : i <= j
    IN  IF ~IsH2(line) \/ dots = {} THEN -1
        ELSE IF dot = Len(rest) \/ rest[dot + 1] # " " THEN -1
        ELSE ParseNat(SubSeq(rest, 1, dot - 1))

\* the categories rendered as titled sections, in their order
SectionOrder == SubSeq(CategoryOrder, 2, Len(CategoryOrder))

TitleOf(c) == (CHOOSE sec \in Range(sections) : sec.key = c).title

\* the section number of category CategoryOrder[k], k >= 2: the financial
\* records and the non-empty categories up to it
SectionNumberOf(k) ==
    Len(classified_content["financial"])
        + Cardinality({j \in 2..k : classified_content[CategoryOrder[j]] # <<>>})

\* the heading and the record of every Q&A block the document is to have,
\* in document order
ExpectedItems ==
    LET fin == InputOrder(Reports, classified_content["financial"])
        finItems == [i \in 1..Len(fin) |->
                        [heading |-> <<"#", "#", " ">> \o str(i) \o <<".", " ">>
                                         \o Trimmed(fin[i].question),
                         record |-> fin[i]]]
        secItems(k) ==
            LET items == InputOrder(Reports, classified_content[CategoryOrder[k]])
            IN  [m \in 1..Len(items) |->
                    [heading |-> <<"#", "#", "#", " ">>
                                     \o str(SectionNumberOf(k)) \o <<".">>
                                     \o str(m) \o <<" ">>
                                     \o Trimmed(items[m].question),
                     record |-> items[m]]]
    IN  finItems \o secItems(2) \o secItems(3) \o secItems(4) \o secItems(5)
            \o secItems(6)

\* every heading line the document is to have, in document order
ExpectedHeadings ==
    LET fin == InputOrder(Reports, classified_content["financial"])
        finHeads == [i \in 1..Len(fin) |->
                        <<"#", "#", " ">> \o str(i) \o <<".", " ">>
                            \o Trimmed(fin[i].question)]
        secHeads(k) ==
            LET c == CategoryOrder[k]
                items == InputOrder(Reports, classified_content[c])
            IN  IF items = <<>> THEN <<>>
                ELSE << <<"#", "#", " ">> \o str(SectionNumberOf(k))
                            \o <<".", " ">> \o TitleOf(c) >>
                     \o [m \in 1..Len(items) |->
                            <<"#", "#", "#", " ">>
                                \o str(SectionNumberOf(k)) \o <<".">>
                                \o str(m) \o <<" ">>
                                \o Trimmed(items[m].question)]
    IN  finHeads \o secHeads(2) \o secHeads(3) \o secHeads(4) \o secHeads(5)
            \o secHeads(6)

\* the answer with each backslash-n pair turned into one line break
Unescaped(a) ==
    LET pairs == {i \in 1..(Len(a) - 1) : a[i] = "\\" /\ a[i + 1] = "n"}
        positions == [i \in 1..Len(a) |-> i]
        stays(i) == (i - 1) \notin pairs
        kept == SelectSeq(positions, stays)
    IN  [k \in 1..Len(kept) |->
            IF kept[k] \in pairs THEN "\n" ELSE a[kept[k]]]

\* the text of one Q&A block, from the line break before its heading to
\* the line break after its rule
BlockText(item) ==
    <<"\n">> \o item.heading \o <<"\n", "\n">>
        \o Unescaped(Trimmed(item.record.answer))
        \o <<"\n", "\n", "-", "-", "-", "\n">>

\* the number of places where w occurs in t
OccurrenceCount(w, t) ==
    Cardinality({i \in 0..(Len(t) - Len(w)) :
                    t[i + 1] = w[1] /\ SubSeq(t, i + 1, i + Len(w)) = w})

---------------------------------------------------------------------------
(* C6: the numbers of the second-level headings '## N. ...' of the         *)
(* document, read in document order, are 1, 2, ..., k without gap or       *)
(* repeat; a category without records has no heading and takes no number.  *)
C6_SectionNumbersContiguous ==
    Generated =>
        LET heads == SelectSeq(DocLines(md_content), IsH2)
        IN  /\ \A k \in 1..Len(heads) : H2Number(heads[k]) = k
            /\ Len(heads) = SectionNumberOf(Len(CategoryOrder))
            /\ \A c \in Range(SectionOrder) :
                   classified_content[c] = <<>> =>
                       \A k \in 1..Len(heads) :
                           heads[k] # <<"#", "#", " ">> \o str(k)
                                          \o <<".", " ">> \o TitleOf(c)

\* a document whose populated categories are not adjacent in the order
C6_Witness ==
    /\ Generated
    /\ classified_content["financial"] # <<>>
    /\ classified_content["business"] = <<>>
    /\ classified_content["analysis"] = <<>>
    /\ classified_content["management"] # <<>>
    /\ section_number = 3

(* C7: the document has the financial records first, one second-level      *)
(* heading each, in input order; then, for the non-empty categories among  *)
(* business, analysis, management, governance, other in that order, one    *)
(* heading '## N. <title>' followed by the records in input order as       *)
(* '### N.M <question>', M counting from 1 in every category.              *)
C7_HeadingLayout ==
    Generated =>
        SelectSeq(DocLines(md_content), IsHeading) = ExpectedHeadings

\* a titled category with two records
C7_Witness ==
    /\ Generated
    /\ \E c \in Range(SectionOrder) : Len(classified_content[c]) = 2
    /\ Len(SelectSeq(DocLines(md_content), IsH3)) = 2

(* C8: when the reports list is empty or all its records have a blank      *)
(* question or answer, the document has the title heading and no line      *)
(* that starts with '##'.                                                  *)
C8_NoRecordsNoSections ==
    (Generated /\ \A r \in Range(Reports) : ~Kept(r)) =>
        LET lines == DocLines(md_content)
        IN  /\ \E k \in 1..Len(lines) : lines[k] = <<"#", " ">> \o title
            /\ \A k \in 1..Len(lines) : ~StartsWith(lines[k], <<"#", "#">>)

\* a document generated from a list of blank records only
C8_Witness ==
    /\ Generated
    /\ Len(Reports) = 2
    /\ \A r \in Range(Reports) : ~Kept(r)

(* C9: the returned title is '<company_name> <label> (<year>Q<quarter>)'   *)
(* when a company name is given (a non-empty one) and '<label>             *)
(* (<year>Q<quarter>)' otherwise, and the first line of the document is    *)
(* '# ' followed by that title.                                            *)
C9_TitleAndFirstLine ==
    Generated =>
        LET period == <<"(">> \o str(params.report_data.data.year) \o <<"Q">>
                          \o str(params.report_data.data.quarter) \o <<")">>
            bare == ReportLabel \o <<" ">> \o period
            given == params.company_name \notin {None, <<>>}
        IN  /\ title = IF given THEN params.company_name \o <<" ">> \o bare
                       ELSE bare
            /\ DocLines(md_content)[1] = <<"#", " ">> \o title

\* a document generated for a named company
C9_Witness ==
    /\ Generated
    /\ params.company_name \notin {None, <<>>}
    /\ StartsWith(title, params.company_name \o <<" ">> \o ReportLabel)
    /\ StartsWith(md_content, <<"#", " ">> \o title \o <<"\n">>)

(* C10: every record with non-blank question and answer is in the          *)
(* document exactly once, as the block of its heading, a blank line, its   *)
(* trimmed answer with each backslash-n pair turned into a line break, a   *)
(* blank line and a '---' line; none is emitted twice, none is left out.   *)
C10_EveryRecordOneBlock ==
    Generated =>
        LET lines == DocLines(md_content)
            sectionHeads ==
                {k \in 1..Len(lines) :
                    LET line == lines[k]
                    IN  /\ StartsWith(line, <<"#", "#", " ">>)
                        /\ \E c \in Range(SectionOrder), n \in 1..Len(lines) :
                               line = <<"#", "#", " ">> \o str(n)
                                          \o <<".", " ">> \o TitleOf(c)}
            recordHeads ==
                {k \in 1..Len(lines) : IsHeading(lines[k])} \ sectionHeads
        IN  /\ Cardinality(recordHeads)
                   = Cardinality({i \in 1..Len(Reports) : Kept(Reports[i])})
            /\ Len(ExpectedItems) = Cardinality(recordHeads)
            /\ \A k \in 1..Len(ExpectedItems) :
                   OccurrenceCount(BlockText(ExpectedItems[k]), md_content) = 1

\* a document holding a record whose answer has two backslash-n pairs and
\* a second record
C10_Witness ==
    /\ Generated
    /\ Len(ExpectedItems) = 2
    /\ \E k \in 1..2 :
           Len(Unescaped(ExpectedItems[k].record.answer))
               = Len(ExpectedItems[k].record.answer) - 2

---------------------------------------------------------------------------
(* Vocabulary of the properties about the task's failures and status. *)

\* report_data lacks one of the fields data, year, quarter, reports
LacksField ==
    \/ "data" \notin DOMAIN params.report_data
    \/ \E f \in {"year", "quarter", "reports"} :
           f \notin DOMAIN params.report_data.data

\* main has failed
Failed == pc = "raised"

\* the records of the input that have a non-blank question and answer
KeptCount == Cardinality({i \in 1..Len(Reports) : Kept(Reports[i])})

\* the N of a status message '... with N Q&A items', -1 if it has none
StatusNumber(message) ==
    LET head == <<"w", "i", "t", "h", " ">>
        tail == <<" ", "Q", "&", "A", " ", "i", "t", "e", "m", "s">>
        starts == {i \in 1..(Len(message) - Len(head) + 1) :
                      SubSeq(message, i, i + Len(head) - 1) = head}
        from == (CHOOSE i \in starts : TRUE) + Len(head)
        to == Len(message) - Len(tail)
    IN  IF starts = {} \/ to < from THEN -1
        ELSE IF SubSeq(message, to + 1, Len(message)) # tail THEN -1
        ELSE ParseNat(SubSeq(message, from, to))

---------------------------------------------------------------------------
(* C11: when report_data lacks one of the fields data, year, quarter or    *)
(* reports, main fails with a ValueError; and whenever main has failed no  *)
(* file has been created or written at the target path.                    *)
C11_FailureLeavesNoFile ==
    /\ (LacksField /\ pc # "main") =>
           (Failed /\ outputs = Raised("ValueError"))
    /\ Failed => file_path \notin DOMAIN fs.files

\* the first half of C11 alone: a missing field is a ValueError, raised
\* before anything is generated or written
C11_MissingFieldRaises ==
    (LacksField /\ pc # "main") =>
        /\ Failed
        /\ outputs = Raised("ValueError")
        /\ md_content = <<>>
        /\ fs = EmptyFs

\* main has failed after open() created the target file: the file is there,
\* empty
C11_Witness ==
    /\ Failed
    /\ file_path \in DOMAIN fs.files
    /\ fs.files[file_path] = <<>>

(* C12: a record of the reports list whose question or answer is missing,  *)
(* null, empty or whitespace-only never makes the generation fail: when    *)
(* report_data has its fields the document is generated, and it holds the  *)
(* block of every record with non-blank question and answer.               *)
C12_MalformedRecordElided ==
    /\ (Failed /\ ~LacksField) => md_content # <<>>
    /\ Generated =>
           /\ Len(ExpectedItems) = KeptCount
           /\ \A k \in 1..Len(ExpectedItems) :
                  OccurrenceCount(BlockText(ExpectedItems[k]), md_content) >= 1

\* main has failed on a complete report_data before any document existed,
\* and the reports list holds a null question or answer
C12_Witness ==
    /\ Failed
    /\ ~LacksField
    /\ md_content = <<>>
    /\ \E i \in 1..Len(Reports) :
           \E f \in {"question", "answer"} :
               f \in DOMAIN Reports[i] /\ Reports[i][f] = None

(* C13: the number N of the returned status message '... with N Q&A items' *)
(* is the number of records included in the document, that is, of the      *)
(* records with non-blank question and answer.                             *)
C13_StatusCountsIncluded ==
    pc = "done" => StatusNumber(outputs.status) = KeptCount

\* main has returned a status whose number is larger than the number of
\* records in the document
C13_Witness ==
    /\ pc = "done"
    /\ StatusNumber(outputs.status) = Len(Reports)
    /\ KeptCount < Len(Reports)

---------------------------------------------------------------------------
(* The generate_periods_markdown task *)

\* longest periods list drawn in the initial states
MaxPeriods == 3

\* the wall clock is followed for this many seconds
MaxTick == 1

\* the default ticker of line 53
Unknown == <<"U", "n", "k", "n", "o", "w", "n">>

\* the default year and quarter of lines 77-78
NA == <<"N", "/", "A">>

Letters ==
    <<"A", "B", "C", "D", "E", "F", "G", "H", "I", "J", "K", "L", "M",
      "N", "O", "P", "Q", "R", "S", "T", "U", "V", "W", "X", "Y", "Z",
      "a", "b", "c", "d", "e", "f", "g", "h", "i", "j", "k", "l", "m",
      "n", "o", "p", "q", "r", "s", "t", "u", "v", "w", "x", "y", "z">>

\* ord(c) of a letter
ord(c) ==
    LET i == CHOOSE k \in 1..Len(Letters) : Letters[k] = c
    IN  IF i <= 26 THEN 64 + i ELSE 70 + i

\* a < b of two str values: the order sorted() puts the tickers in
str_lt(a, b) ==
    \E i \in 1..(Min(Len(a), Len(b)) + 1) :
        /\ \A j \in 1..(i - 1) : a[j] = b[j]
        /\ IF i > Len(a) THEN i <= Len(b)
           ELSE IF i > Len(b) THEN FALSE
           ELSE ord(a[i]) < ord(b[i])

\* the keys in descending order
sorted_tickers_descending(groups) ==
    LET keys == DOMAIN groups
    IN  [k \in 1..Cardinality(keys) |->
            CHOOSE t \in keys :
                Cardinality({u \in keys : str_lt(t, u)}) = k - 1]

\* sorted(ticker_groups.keys()), line 59
sorted_tickers(groups) ==
    LET keys == DOMAIN groups
    IN  [k \in 1..Cardinality(keys) |->
            CHOOSE t \in keys :
                Cardinality({u \in keys : str_lt(u, t)}) = k - 1]

\* the key of line 70
sort_key(x) == <<DictGet(x, "year", 0), DictGet(x, "quarter", 0)>>

\* k1 < k2 of two (year, quarter) tuples
key_lt(k1, k2) == k1[1] < k2[1] \/ (k1[1] = k2[1] /\ k1[2] < k2[2])

\* x put in front of the elements of its key
insort_front(sorted, x) ==
    LET before == {i \in 1..Len(sorted) :
                      key_lt(sort_key(sorted[i]), sort_key(x))}
        pos == Cardinality(before)
    IN  SubSeq(sorted, 1, pos) \o <<x>> \o SubSeq(sorted, pos + 1, Len(sorted))

\* x put into a sorted list behind every element whose key is not larger:
\* sorted() is stable
insort(sorted, x) ==
    LET before == {i \in 1..Len(sorted) :
                      ~key_lt(sort_key(x), sort_key(sorted[i]))}
        pos == Cardinality(before)
    IN  SubSeq(sorted, 1, pos) \o <<x>> \o SubSeq(sorted, pos + 1, Len(sorted))

\* sorted(periods, key=lambda x: (x.get("year", 0), x.get("quarter", 0)))
RECURSIVE sorted_periods(_)
sorted_periods(periods) ==
    IF periods = <<>> THEN <<>>
    ELSE insort(sorted_periods(SubSeq(periods, 1, Len(periods) - 1)),
                periods[Len(periods)])

\* the loop with an assignment in place of the append of line 56
RECURSIVE group_loop_last(_, _, _)
group_loop_last(data, i, groups) ==
    IF i > Len(data) THEN groups
    ELSE LET ticker == DictGet(data[i], "ticker", Unknown)
         IN  group_loop_last(data, i + 1,
                 [t \in DOMAIN groups \cup {ticker} |->
                     IF t = ticker THEN <<data[i]>> ELSE groups[t]])

\* the loop of lines 52-56, from period i on: ticker -> its periods
RECURSIVE group_loop(_, _, _)
group_loop(data, i, groups) ==
    IF i > Len(data) THEN groups
    ELSE LET ticker == DictGet(data[i], "ticker", Unknown)
             old == IF ticker \in DOMAIN groups THEN groups[ticker] ELSE <<>>
         IN  group_loop(data, i + 1,
                 [t \in DOMAIN groups \cup {ticker} |->
                     IF t = ticker THEN Append(old, data[i]) ELSE groups[t]])

\* period.get(key, "N/A") as the f-strings of lines 79-80 show it: the
\* digits of the number, or the default
format_value(period, key) ==
    IF key \in DOMAIN period THEN str(period[key]) ELSE NA

\* period_str of line 79, with the test of the quarter alone
period_str_quarter_only(year, quarter) ==
    IF quarter # NA
    THEN <<"Q">> \o quarter \o <<" ">> \o year
    ELSE year \o <<"-">> \o quarter

\* period_str of line 79, of the shown year and quarter: the digits of a
\* number never are 'N/A'
period_str(year, quarter) ==
    IF quarter # NA /\ year # NA
    THEN <<"Q">> \o quarter \o <<" ">> \o year
    ELSE year \o <<"-">> \o quarter

\* the table row of lines 77-80
table_row(period) ==
    LET year == format_value(period, "year")
        quarter == format_value(period, "quarter")
    IN  <<"|", " ">> \o year \o <<" ", "|", " ">>
            \o quarter \o <<" ", "|", " ">>
            \o period_str(year, quarter) \o <<" ", "|">>

\* a JSON value of the input with its Python type: a list with its items,
\* or a value of another type
PyList(items) == [type |-> "list", items |-> items]
PyValue(type) == [type |-> type]

\* the periods the lists are drawn from
PeriodPool ==
    { [ticker |-> <<"A">>, year |-> 2023, quarter |-> 2],
      [ticker |-> <<"A">>, year |-> 2023, quarter |-> 1],
      [ticker |-> <<"A">>, year |-> 2022, quarter |-> 4],
      [ticker |-> <<"a">>, year |-> 2023, quarter |-> 1],
      \* no ticker, no quarter
      [year |-> 2023],
      \* no year: sorted as year 0
      [ticker |-> <<"A">>, quarter |-> 1],
      \* year 0: the same sort key, another row
      [ticker |-> <<"A">>, year |-> 0, quarter |-> 1] }

PeriodLists == SeqsUpTo(PeriodPool, MaxPeriods)

\* periods_list: None, {}, a dict without 'data', a 'data' that is no
\* list, and the valid lists
PeriodsParamsSet ==
    { [periods_list |-> pl] :
        pl \in { PyValue("NoneType"),
                 <<>>,
                 [status |-> <<"o", "k">>],
                 [data |-> PyValue("dict")] }
               \cup { [data |-> PyList(l)] : l \in PeriodLists } }
        \cup { [other |-> <<>>] }

InitPeriods ==
    /\ MdIdle
    /\ HttpIdle
    /\ PdfIdle
    /\ periods_params \in PeriodsParamsSet
    /\ periods_pc = "main"
    /\ now = 0
    /\ markdown_lines = <<>>
    /\ ticker_groups = <<>>
    /\ periods_outputs = <<>>
    /\ periods_calls = <<>>

\* datetime.now().strftime('%Y-%m-%d %H:%M:%S') in the first minute of a
\* day, t seconds after midnight
strftime(t) ==
    <<"2", "0", "2", "5", "-", "0", "1", "-", "0", "1", " ",
      "0", "0", ":", "0", "0", ":">>
        \o (IF t < 10 THEN <<"0">> \o str(t) ELSE str(t))

\* main raises exc: the call is over
PeriodsRaise(exc) ==
    /\ periods_pc' = "raised"
    /\ periods_outputs' = Raised(exc)
    /\ periods_calls' = Append(periods_calls, Raised(exc))

\* main, lines 24-31
PeriodsValidate ==
    /\ UNCHANGED <<md_vars, http_vars, pdf_vars>>
    /\ periods_pc = "main"
    /\ IF "periods_list" \notin DOMAIN periods_params
       THEN PeriodsRaise("KeyError")
       ELSE LET periods_list == periods_params.periods_list
            IN  IF \/ DOMAIN periods_list = {}
                   \/ "type" \in DOMAIN periods_list
                   \/ "data" \notin DOMAIN periods_list
                THEN PeriodsRaise("ValueError")
                ELSE IF periods_list.data.type # "list"
                THEN PeriodsRaise("ValueError")
                ELSE /\ periods_pc' = "header"
                     /\ UNCHANGED <<periods_outputs, periods_calls>>
    /\ UNCHANGED <<periods_params, now, markdown_lines, ticker_groups>>

\* main, lines 34-40: the header, with the time of the call
PeriodsHeader ==
    /\ UNCHANGED <<md_vars, http_vars, pdf_vars>>
    /\ periods_pc = "header"
    /\ LET data == periods_params.periods_list.data.items
       IN  /\ markdown_lines' =
                  << <<"#", " ", "C", "a", "c", "h", "e", "d", " ",
                       "R", "e", "p", "o", "r", "t", " ",
                       "P", "e", "r", "i", "o", "d", "s">>,
                     <<>>,
                     <<"*", "G", "e", "n", "e", "r", "a", "t", "e", "d", " ",
                       "o", "n", ":", " ">> \o strftime(now) \o <<"*">>,
                     <<>>,
                     <<"*", "*", "T", "o", "t", "a", "l", " ",
                       "P", "e", "r", "i", "o", "d", "s", " ",
                       "A", "v", "a", "i", "l", "a", "b", "l", "e", ":", " ">>
                         \o str(Len(data)) \o <<"*", "*">>,
                     <<>> >>
           /\ periods_pc' = IF Len(data) = 0 THEN "empty" ELSE "group"
    /\ UNCHANGED <<periods_params, now, ticker_groups, periods_outputs,
                   periods_calls>>

\* main returns: the call is over
PeriodsReturn(markdown_output, periods_count) ==
    LET result == [markdown_output |-> markdown_output,
                   periods_count |-> periods_count]
    IN  /\ periods_outputs' = result
        /\ periods_calls' = Append(periods_calls, result)
        /\ periods_pc' = "returned"

\* main, lines 42-48
PeriodsEmpty ==
    /\ UNCHANGED <<md_vars, http_vars, pdf_vars>>
    /\ periods_pc = "empty"
    /\ markdown_lines' =
           Append(markdown_lines,
                  <<"N", "o", " ", "c", "a", "c", "h", "e", "d", " ",
                    "p", "e", "r", "i", "o", "d", "s", " ",
                    "a", "v", "a", "i", "l", "a", "b", "l", "e", ".">>)
    /\ PeriodsReturn(join(markdown_lines'), 0)
    /\ UNCHANGED <<periods_params, now, ticker_groups>>

\* main, lines 51-62: the groups and the heading of the ticker sections
PeriodsGroup ==
    /\ UNCHANGED <<md_vars, http_vars, pdf_vars>>
    /\ periods_pc = "group"
    /\ ticker_groups' =
           group_loop(periods_params.periods_list.data.items, 1, <<>>)
    /\ markdown_lines' =
           markdown_lines \o
               << <<"#", "#", " ", "A", "v", "a", "i", "l", "a", "b", "l", "e",
                    " ", "P", "e", "r", "i", "o", "d", "s", " ", "b", "y", " ",
                    "T", "i", "c", "k", "e", "r">>,
                  <<>> >>
    /\ periods_pc' = "tables"
    /\ UNCHANGED <<periods_params, now, periods_outputs, periods_calls>>

\* the lines of one ticker section, lines 65-82
ticker_section(ticker, periods) ==
    LET periods_sorted == sorted_periods(periods)
    IN  << <<"#", "#", "#", " ">> \o ticker,
           <<>>,
           <<"|", " ", "Y", "e", "a", "r", " ", "|", " ",
             "Q", "u", "a", "r", "t", "e", "r", " ", "|", " ",
             "P", "e", "r", "i", "o", "d", " ", "|">>,
           <<"|", "-", "-", "-", "-", "-", "-", "|",
             "-", "-", "-", "-", "-", "-", "-", "-", "-", "|",
             "-", "-", "-", "-", "-", "-", "-", "-", "|">> >>
            \o [k \in 1..Len(periods_sorted) |-> table_row(periods_sorted[k])]
            \o << <<>> >>

\* the loop of lines 64-82, from ticker i on
RECURSIVE tables_loop(_, _, _, _)
tables_loop(tickers, i, groups, lines) ==
    IF i > Len(tickers) THEN lines
    ELSE tables_loop(tickers, i + 1, groups,
                     lines \o ticker_section(tickers[i], groups[tickers[i]]))

\* main, lines 64-89: the ticker sections, the join and the return
PeriodsTables ==
    /\ UNCHANGED <<md_vars, http_vars, pdf_vars>>
    /\ periods_pc = "tables"
    /\ markdown_lines' =
           tables_loop(sorted_tickers(ticker_groups), 1, ticker_groups,
                       markdown_lines)
    /\ PeriodsReturn(join(markdown_lines'),
                     Len(periods_params.periods_list.data.items))
    /\ UNCHANGED <<periods_params, now, ticker_groups>>

\* the task is run once more on the same input
PeriodsCallAgain ==
    /\ UNCHANGED <<md_vars, http_vars, pdf_vars>>
    /\ periods_pc \in {"returned", "raised"}
    /\ Len(periods_calls) < 2
    /\ periods_pc' = "main"
    /\ markdown_lines' = <<>>
    /\ ticker_groups' = <<>>
    /\ periods_outputs' = <<>>
    /\ UNCHANGED <<periods_params, now, periods_calls>>

\* a second passes between two calls
Tick ==
    /\ UNCHANGED <<md_vars, http_vars, pdf_vars>>
    /\ periods_pc = "main"
    /\ Len(periods_calls) = 1
    /\ now < MaxTick
    /\ now' = now + 1
    /\ UNCHANGED <<periods_params, periods_pc, markdown_lines, ticker_groups,
                   periods_outputs, periods_calls>>

NextPeriods ==
    \/ PeriodsValidate
    \/ PeriodsHeader
    \/ PeriodsEmpty
    \/ PeriodsGroup
    \/ PeriodsTables
    \/ PeriodsCallAgain
    \/ Tick

SpecPeriods == InitPeriods /\ [][NextPeriods]_vars

---------------------------------------------------------------------------
(* Vocabulary of the properties about the periods formatter.  A period     *)
(* without a ticker counts as a period of the ticker 'Unknown'; a period   *)
(* without a year or quarter is ordered as if that number were 0.          *)

\* the formatter has returned its output for a valid periods list
PeriodsReturned == periods_pc = "returned"

\* the periods of the input
Periods == periods_params.periods_list.data.items

\* the lines of a text, from the rear: the text behind its last line break
\* is its last line
RECURSIVE LinesOf(_)
LinesOf(doc) ==
    LET nl == {i \in 1..Len(doc) : doc[i] = "\n"}
        last == CHOOSE i \in nl : \A j \in nl : j <= i
    IN  IF nl = {} THEN <<doc>>
        ELSE Append(LinesOf(SubSeq(doc, 1, last - 1)),
                    SubSeq(doc, last + 1, Len(doc)))

\* the lines of the Markdown output
OutLines == LinesOf(periods_outputs.markdown_output)

TickerName(p) == IF "ticker" \in DOMAIN p THEN p.ticker ELSE Unknown

YearNumber(p) == IF "year" \in DOMAIN p THEN p.year ELSE 0

QuarterNumber(p) == IF "quarter" \in DOMAIN p THEN p.quarter ELSE 0

\* period p is earlier than period q in (year, quarter) order
Earlier(p, q) ==
    \/ YearNumber(p) < YearNumber(q)
    \/ YearNumber(p) = YearNumber(q) /\ QuarterNumber(p) < QuarterNumber(q)

\* the text a is before the text b in the order of their characters
LexBefore(a, b) ==
    LET differ == {i \in 1..Min(Len(a), Len(b)) : a[i] # b[i]}
        first == CHOOSE i \in differ : \A j \in differ : i <= j
    IN  IF differ = {} THEN Len(a) < Len(b)
        ELSE ord(a[first]) < ord(b[first])

\* the n-th smallest member of a set of numbers
NthOf(S, n) == CHOOSE i \in S : Cardinality({j \in S : j < i}) = n - 1

\* the members of a set of numbers in ascending order
Ascending(S) == [n \in 1..Cardinality(S) |-> NthOf(S, n)]

\* the text of a cell: the number, or N/A for an absent one
CellOf(p, field) ==
    IF field \in DOMAIN p THEN str(p[field]) ELSE <<"N", "/", "A">>

\* the Period cell the specification gives a period
PeriodCell(p) ==
    IF {"year", "quarter"} \subseteq DOMAIN p
    THEN <<"Q">> \o str(p.quarter) \o <<" ">> \o str(p.year)
    ELSE CellOf(p, "year") \o <<"-">> \o CellOf(p, "quarter")

\* the table row of a period
ExpectedRow(p) ==
    <<"|", " ">> \o CellOf(p, "year") \o <<" ", "|", " ">>
        \o CellOf(p, "quarter") \o <<" ", "|", " ">>
        \o PeriodCell(p) \o <<" ", "|">>

\* a data row of a table: a row that is not the row of column titles
IsDataRow(line) ==
    /\ StartsWith(line, <<"|", " ">>)
    /\ ~StartsWith(line, <<"|", " ", "Y", "e", "a", "r", " ", "|">>)

\* the positions of the ticker headings
TickerHeads(lines) == {k \in 1..Len(lines) : IsH3(lines[k])}

\* the ticker of the heading at line h
HeadTicker(lines, h) == SubSeq(lines[h], 5, Len(lines[h]))

\* the data rows of the section whose heading is line h, in document order
SectionRows(lines, h) ==
    LET later == {k \in TickerHeads(lines) : k > h}
        stop == IF later = {} THEN Len(lines) + 1
                ELSE CHOOSE k \in later : \A j \in later : k <= j
        rows == Ascending({k \in (h + 1)..(stop - 1) : IsDataRow(lines[k])})
    IN  [n \in 1..Len(rows) |-> lines[rows[n]]]

\* the periods of a ticker in (year, quarter) order, equal ones in input
\* order
OrderedPeriods(periods, ticker) ==
    LET own == {i \in 1..Len(periods) : TickerName(periods[i]) = ticker}
        rank(i) ==
            Cardinality({j \in own :
                \/ Earlier(periods[j], periods[i])
                \/ /\ ~Earlier(periods[i], periods[j])
                   /\ j < i})
    IN  [n \in 1..Cardinality(own) |->
            periods[CHOOSE i \in own : rank(i) = n - 1]]

\* the cells of a table row '| a | b | c |'
Cells(line) ==
    LET bars == Ascending({i \in 1..Len(line) : line[i] = "|"})
    IN  [n \in 1..(Len(bars) - 1) |->
            SubSeq(line, bars[n] + 2, bars[n + 1] - 2)]

---------------------------------------------------------------------------
(* C14: classify_content, generate_md_report and the periods formatter are *)
(* pure functions of their input: two calls with equal input return equal  *)
(* output, whatever the wall clock did between the calls.  The periods     *)
(* formatter is the one of the three that reads anything but its           *)
(* arguments, so the property is stated of its two calls.                  *)
C14_EqualInputEqualOutput ==
    Len(periods_calls) = 2 => periods_calls[1] = periods_calls[2]

\* the other half of C14: no step of the formatter changes its input
C14_InputUnmodified == [][periods_params' = periods_params]_vars

\* what two calls on one input do agree on: everything but the line of
\* the time stamp
C14_SameButTimeStamp ==
    (Len(periods_calls) = 2 /\ ~IsRaised(periods_calls[1])) =>
        LET first == DocLines(periods_calls[1].markdown_output)
            second == DocLines(periods_calls[2].markdown_output)
        IN  /\ periods_calls[1].periods_count = periods_calls[2].periods_count
            /\ Len(first) = Len(second)
            /\ \A k \in 1..Len(first) : k # 3 => first[k] = second[k]

\* two calls on one list of periods have returned different documents
C14_Witness ==
    /\ Len(periods_calls) = 2
    /\ ~IsRaised(periods_calls[1])
    /\ ~IsRaised(periods_calls[2])
    /\ Len(Periods) > 0
    /\ periods_calls[1].markdown_output # periods_calls[2].markdown_output

(* C15: the output has exactly one '### <ticker>' section per distinct     *)
(* ticker of the input, the sections are in ascending order of ticker, and *)
(* the rows of each section are the periods of its ticker in ascending     *)
(* (year, quarter) order, periods of equal (year, quarter) in input order. *)
C15_SectionsAndRowsSorted ==
    PeriodsReturned =>
        LET lines == OutLines
            heads == Ascending(TickerHeads(lines))
            tickers == {TickerName(Periods[i]) : i \in 1..Len(Periods)}
        IN  /\ Len(heads) = Cardinality(tickers)
            /\ {HeadTicker(lines, heads[n]) : n \in 1..Len(heads)} = tickers
            /\ \A n \in 1..(Len(heads) - 1) :
                   LexBefore(HeadTicker(lines, heads[n]),
                             HeadTicker(lines, heads[n + 1]))
            /\ \A n \in 1..Len(heads) :
                   LET ordered ==
                           OrderedPeriods(Periods, HeadTicker(lines, heads[n]))
                       rows == SectionRows(lines, heads[n])
                   IN  /\ Len(rows) = Len(ordered)
                       /\ \A k \in 1..Len(rows) :
                              rows[k] = ExpectedRow(ordered[k])

\* two tickers first seen in descending order, and two periods of one
\* ticker with equal (year, quarter) and different rows
C15_Witness ==
    /\ PeriodsReturned
    /\ \E i, j \in 1..Len(Periods) :
           /\ i < j
           /\ LexBefore(TickerName(Periods[j]), TickerName(Periods[i]))
    /\ \E i, j \in 1..Len(Periods) :
           /\ i < j
           /\ TickerName(Periods[i]) = TickerName(Periods[j])
           /\ ~Earlier(Periods[i], Periods[j])
           /\ ~Earlier(Periods[j], Periods[i])
           /\ ExpectedRow(Periods[i]) # ExpectedRow(Periods[j])

(* C16: periods_count is the number of input periods and the number of     *)
(* table data rows of the output, each period being one row of the section *)
(* of its ticker; for the empty list the output has the informational      *)
(* line, no ticker heading and no table, and periods_count is 0.           *)
C16_CountIsRows ==
    PeriodsReturned =>
        LET lines == OutLines
            heads == TickerHeads(lines)
            rows == {k \in 1..Len(lines) : IsDataRow(lines[k])}
        IN  /\ periods_outputs.periods_count = Len(Periods)
            /\ Cardinality(rows) = Len(Periods)
            /\ \A i \in 1..Len(Periods) :
                   \E h \in heads :
                       /\ HeadTicker(lines, h) = TickerName(Periods[i])
                       /\ Cardinality(
                              {n \in DOMAIN SectionRows(lines, h) :
                                  SectionRows(lines, h)[n]
                                      = ExpectedRow(Periods[i])})
                            = Cardinality(
                                  {j \in 1..Len(Periods) :
                                      /\ TickerName(Periods[j])
                                             = TickerName(Periods[i])
                                      /\ ExpectedRow(Periods[j])
                                             = ExpectedRow(Periods[i])})
            /\ Periods = <<>> =>
                   /\ \E k \in 1..Len(lines) :
                          lines[k] = <<"N", "o", " ", "c", "a", "c", "h", "e",
                                       "d", " ", "p", "e", "r", "i", "o", "d",
                                       "s", " ", "a", "v", "a", "i", "l", "a",
                                       "b", "l", "e", ".">>
                   /\ heads = {}
                   /\ \A k \in 1..Len(lines) : ~StartsWith(lines[k], <<"|">>)
                   /\ periods_outputs.periods_count = 0

\* three periods in two sections, one period being there twice
C16_Witness ==
    /\ PeriodsReturned
    /\ Len(Periods) = 3
    /\ periods_outputs.periods_count = 3
    /\ Cardinality(TickerHeads(OutLines)) = 2
    /\ \E i, j \in 1..Len(Periods) : i < j /\ Periods[i] = Periods[j]

(* C17: the Period cell of every table row is 'Q<quarter> <year>' when the *)
(* period has a year and a quarter, and '<year>-<quarter>', the absent one *)
(* shown as N/A, when one of them is missing.                              *)
C17_PeriodCell ==
    PeriodsReturned =>
        LET lines == OutLines
            rows == {k \in 1..Len(lines) : IsDataRow(lines[k])}
            cells(p) == <<CellOf(p, "year"), CellOf(p, "quarter"),
                          PeriodCell(p)>>
        IN  /\ \A k \in rows :
                   \E i \in 1..Len(Periods) :
                       Cells(lines[k]) = cells(Periods[i])
            /\ \A i \in 1..Len(Periods) :
                   \E k \in rows : Cells(lines[k]) = cells(Periods[i])

\* rows of a period without year, of one without quarter and of one with
\* both
C17_Witness ==
    /\ PeriodsReturned
    /\ \E i, j, k \in 1..Len(Periods) :
           /\ "year" \notin DOMAIN Periods[i]
           /\ "quarter" \notin DOMAIN Periods[j]
           /\ {"year", "quarter"} \subseteq DOMAIN Periods[k]
    /\ \E n \in 1..Len(OutLines) :
           /\ IsDataRow(OutLines[n])
           /\ Cells(OutLines[n])[3] = <<"2", "0", "2", "3", "-", "N", "/", "A">>

---------------------------------------------------------------------------
(* The tasks that call the remote API *)

\* the default of the parameter max_retries; no caller passes another
max_retries == 3

\* get_cached_report, get_cached_periods and generate_report_summary each
\* have their copy of _make_request_with_retry
RetryTasks ==
    {"get_cached_report", "get_cached_periods", "generate_report_summary"}

HttpTasks == RetryTasks \cup {"financial_report_analyzer"}

\* the classes an exception of requests.get / requests.post is an instance
\* of; RuntimeError stands for an exception that is no RequestException
ExceptionClasses ==
    [ConnectionError |-> {"ConnectionError", "RequestException", "Exception"},
     Timeout |-> {"Timeout", "RequestException", "Exception"},
     ConnectTimeout |-> {"ConnectTimeout", "ConnectionError", "Timeout",
                         "RequestException", "Exception"},
     ReadTimeout |-> {"ReadTimeout", "Timeout", "RequestException",
                      "Exception"},
     TooManyRedirects |-> {"TooManyRedirects", "RequestException",
                           "Exception"},
     HTTPError |-> {"HTTPError", "RequestException", "Exception"},
     RuntimeError |-> {"RuntimeError", "Exception"},
     ValueError |-> {"ValueError", "Exception"},
     AttributeError |-> {"AttributeError", "Exception"},
     Exception |-> {"Exception"}]

\* isinstance(exc, one of classes)
isinstance(exc, classes) == ExceptionClasses[exc] \cap classes # {}

\* the status codes a response is drawn from
StatusCodes == {200, 204, 400, 401, 403, 404, 418, 422, 429, 500, 503}

\* what one requests.get / requests.post call can give: a response, with a
\* body that is JSON or not, or an exception
Response(status_code, is_json) ==
    [status_code |-> status_code, is_json |-> is_json]

RequestOutcomes ==
    {Response(c, TRUE) : c \in StatusCodes}
        \cup {Response(200, FALSE)}
        \cup {Raised(e) : e \in {"ConnectionError", "Timeout",
                                 "ConnectTimeout", "ReadTimeout",
                                 "TooManyRedirects", "RuntimeError"}}

\* the except clause of the retry loop catches every exception
retry_exceptions_all == {"Exception"}

\* the classes named by the except clause of the retry loop
retry_exceptions == {"ConnectionError", "Timeout"}

\* the test of the retry loop, without the - 1
should_retry_once_more(n) == n < max_retries

\* attempt < max_retries - 1
should_retry(n) == n < max_retries - 1

\* 2 ** attempt
backoff(n) == 2 ^ n

\* an entry of net_log
RequestEvent(outcome) == [event |-> "request", outcome |-> outcome]
SleepEvent(seconds) == [event |-> "sleep", seconds |-> seconds]

\* the Inputs the tasks read before the request
CompanySymbols == {None, <<>>, <<"A", "A", "P", "L">>}

AnalysisTypes ==
    {"report_summary", "predefined_questions", "cached_periods",
     "cached_report", "unknown"}

HttpParamsSet(task) ==
    IF task = "generate_report_summary"
    THEN {[company_symbol |-> c] : c \in CompanySymbols}
    ELSE IF task = "financial_report_analyzer"
    THEN {[analysis_type |-> t] : t \in AnalysisTypes}
    ELSE {<<>>}

InitHttp ==
    /\ MdIdle
    /\ PeriodsIdle
    /\ PdfIdle
    /\ http_task \in HttpTasks
    /\ http_params \in HttpParamsSet(http_task)
    /\ http_pc = "main"
    /\ request_body = <<>>
    /\ attempt = 0
    /\ net_log = <<>>
    /\ response = <<>>
    /\ http_outputs = <<>>

\* generate_report_summary lines 60-72: the request body takes the
\* company_symbol of the inputs when it is truthy
make_request_body(p) ==
    IF Truthy(p.company_symbol)
    THEN [company_symbol |-> p.company_symbol]
    ELSE <<>>

\* the validation of line 75 is left out
has_company_symbol_unchecked(body) == TRUE

\* generate_report_summary line 75: request_body.get("company_symbol") is
\* truthy
has_company_symbol(body) ==
    /\ "company_symbol" \in DOMAIN body
    /\ Truthy(body.company_symbol)

\* main raises ValueError with a message
HttpRaise(message) ==
    /\ http_pc' = "raised"
    /\ http_outputs' = [raised |-> "ValueError", message |-> message]

\* main up to the request: get_cached_report lines 45-63, get_cached_periods
\* lines 31-40, generate_report_summary lines 46-76 (a ValueError raised
\* inside the try is caught at line 130), financial_report_analyzer lines
\* 33-86 (caught at line 135)
HttpMain ==
    /\ UNCHANGED <<md_vars, periods_vars, pdf_vars>>
    /\ http_pc = "main"
    /\ IF http_task = "generate_report_summary"
       THEN /\ request_body' = make_request_body(http_params)
            /\ IF has_company_symbol(request_body')
               THEN http_pc' = "request" /\ UNCHANGED http_outputs
               ELSE HttpRaise("Unexpected error")
       ELSE IF http_task = "financial_report_analyzer"
       THEN /\ UNCHANGED request_body
            /\ IF http_params.analysis_type = "unknown"
               THEN HttpRaise("Unexpected error")
               ELSE http_pc' = "direct" /\ UNCHANGED http_outputs
       ELSE /\ UNCHANGED request_body
            /\ http_pc' = "request" /\ UNCHANGED http_outputs
    /\ UNCHANGED <<http_task, http_params, attempt, net_log, response>>

\* _make_request_with_retry: one pass of the loop body up to the return,
\* the sleep or the raise
RetryRequest ==
    /\ UNCHANGED <<md_vars, periods_vars, pdf_vars>>
    /\ http_pc = "request"
    /\ \E outcome \in RequestOutcomes :
           /\ net_log' = Append(net_log, RequestEvent(outcome))
           /\ IF ~IsRaised(outcome)
              THEN response' = outcome /\ http_pc' = "respond"
              ELSE IF /\ isinstance(outcome.raised, retry_exceptions)
                      /\ should_retry(attempt)
              THEN http_pc' = "sleep" /\ UNCHANGED response
              ELSE response' = outcome /\ http_pc' = "except"
    /\ UNCHANGED <<http_task, http_params, request_body, attempt,
                 http_outputs>>

\* _make_request_with_retry: time.sleep(2 ** attempt), continue; a loop
\* that runs out without return or raise ends in the Exception of
\* get_cached_periods line 27 or in the AttributeError of reading
\* status_code of None
RetrySleep ==
    /\ UNCHANGED <<md_vars, periods_vars, pdf_vars>>
    /\ http_pc = "sleep"
    /\ net_log' = Append(net_log, SleepEvent(backoff(attempt)))
    /\ attempt' = attempt + 1
    /\ IF attempt' < max_retries
       THEN http_pc' = "request" /\ UNCHANGED response
       ELSE /\ http_pc' = "except"
            /\ response' = IF http_task = "get_cached_periods"
                           THEN Raised("Exception")
                           ELSE Raised("AttributeError")
    /\ UNCHANGED <<http_task, http_params, request_body, http_outputs>>

\* financial_report_analyzer lines 44-83: the one requests.get or
\* requests.post of the chosen analysis type
DirectRequest ==
    /\ UNCHANGED <<md_vars, periods_vars, pdf_vars>>
    /\ http_pc = "direct"
    /\ \E outcome \in RequestOutcomes :
           /\ net_log' = Append(net_log, RequestEvent(outcome))
           /\ response' = outcome
           /\ http_pc' = IF IsRaised(outcome) THEN "except" ELSE "respond"
    /\ UNCHANGED <<http_task, http_params, request_body, attempt,
                 http_outputs>>

\* main returns its outputs
HttpReturn(result) ==
    /\ http_pc' = "done"
    /\ http_outputs' = result

Success == [status |-> "success"]

\* the status codes a task answers with a ValueError of its own; raised
\* inside the try, it is caught by 'except Exception' and raised again
ErrorCodes(task) ==
    {c \in StatusCodes : c \in {401, 403, 404, 422, 429} \/ (500 <= c /\ c < 600)}
        \cup (IF task \in {"generate_report_summary",
                           "financial_report_analyzer"}
              THEN {400} ELSE {})

\* response.raise_for_status() raises HTTPError
IsHttpError(c) == 400 <= c /\ c < 600

\* the handling of the status code: get_cached_report lines 68-98,
\* get_cached_periods lines 44-76 and 87, generate_report_summary lines
\* 81-122, financial_report_analyzer lines 89-119
HttpRespond ==
    /\ UNCHANGED <<md_vars, periods_vars, pdf_vars>>
    /\ http_pc = "respond"
    /\ LET c == response.status_code
       IN  IF c = 200
           THEN IF response.is_json \/ http_task = "financial_report_analyzer"
                THEN HttpReturn(Success)
                ELSE HttpRaise("Unexpected error")
           ELSE IF c \in ErrorCodes(http_task)
           THEN HttpRaise("Unexpected error")
           ELSE IF IsHttpError(c)
           THEN HttpRaise(IF http_task = "financial_report_analyzer"
                          THEN "HTTP error" ELSE "Request failed")
           ELSE IF http_task = "financial_report_analyzer"
           THEN HttpReturn(Success)
           ELSE IF http_task = "get_cached_periods"
           THEN HttpRaise("No cached periods found")
           ELSE HttpReturn(PyValue("NoneType"))
    /\ UNCHANGED <<http_task, http_params, request_body, attempt, net_log,
                 response>>

\* the except clauses of main: get_cached_report lines 100-107,
\* get_cached_periods lines 78-85, generate_report_summary lines 124-131,
\* financial_report_analyzer lines 121-136
HttpExcept ==
    /\ UNCHANGED <<md_vars, periods_vars, pdf_vars>>
    /\ http_pc = "except"
    /\ LET exc == response.raised
       IN  IF http_task = "financial_report_analyzer"
           THEN IF isinstance(exc, {"HTTPError"})
                THEN HttpRaise("HTTP error")
                ELSE IF isinstance(exc, {"RequestException"})
                THEN HttpRaise("Request failed")
                ELSE HttpRaise("Unexpected error")
           ELSE IF isinstance(exc, {"ConnectionError", "Timeout"})
                THEN HttpRaise("Network connection failed after retries")
                ELSE IF isinstance(exc, {"RequestException"})
                THEN HttpRaise("Request failed")
                ELSE HttpRaise("Unexpected error")
    /\ UNCHANGED <<http_task, http_params, request_body, attempt, net_log,
                 response>>

NextHttp ==
    \/ HttpMain
    \/ RetryRequest
    \/ RetrySleep
    \/ DirectRequest
    \/ HttpRespond
    \/ HttpExcept

SpecHttp == InitHttp /\ [][NextHttp]_vars

\* every call of requests.get / requests.post with a timeout, and every
\* sleep, ends; the requests of financial_report_analyzer have no timeout
SpecHttpLive ==
    /\ SpecHttp
    /\ WF_vars(HttpMain)
    /\ WF_vars(RetryRequest)
    /\ WF_vars(RetrySleep)
    /\ WF_vars(HttpRespond)
    /\ WF_vars(HttpExcept)

---------------------------------------------------------------------------
(* Vocabulary of the properties about the requests. *)

\* the task's request goes through _make_request_with_retry
UsesRetryFunction ==
    http_task \in
        {"get_cached_report", "get_cached_periods", "generate_report_summary"}

\* the positions of the requests in the log
RequestPositions ==
    {k \in 1..Len(net_log) : net_log[k].event = "request"}

\* the positions of the sleeps in the log
SleepPositions == {k \in 1..Len(net_log) : net_log[k].event = "sleep"}

\* the number of requests sent so far
RequestsSent == Cardinality(RequestPositions)

\* the request at position k failed with a connection error or a timeout
ConnectionFailure(k) ==
    /\ net_log[k].event = "request"
    /\ "raised" \in DOMAIN net_log[k].outcome
    /\ net_log[k].outcome.raised \in
           {"ConnectionError", "Timeout", "ConnectTimeout", "ReadTimeout"}

\* the request is being made, or the function sleeps between two requests
Requesting == http_pc \in {"request", "sleep"}

\* the request function has returned to main or raised into it
RequestOver == http_pc \in {"respond", "except", "done", "raised"}

\* two to the power n
PowerOfTwo(n) == IF n = 0 THEN 1 ELSE IF n = 1 THEN 2 ELSE 4

---------------------------------------------------------------------------
\* what C18 says of the log of requests and sleeps
C18_AtMostThreeAttempts ==
    UsesRetryFunction =>
        /\ RequestsSent <= 3
        /\ \A k \in SleepPositions :
               /\ k > 1
               /\ ConnectionFailure(k - 1)
               /\ net_log[k].seconds
                      = PowerOfTwo(Cardinality({j \in RequestPositions : j < k}) - 1)
               /\ net_log[k].seconds \in {1, 2}
               /\ IF k < Len(net_log)
                  THEN net_log[k + 1].event = "request"
                  ELSE http_pc = "request"
        /\ (/\ RequestsSent = 3
            /\ ConnectionFailure(Len(net_log))) =>
               /\ http_pc \in {"except", "raised"}
               /\ response = net_log[Len(net_log)].outcome

(* C18: _make_request_with_retry always terminates after at most 3         *)
(* requests; it sleeps 1 second after the first failure and 2 seconds      *)
(* after the second, only between two attempts and never after the last,   *)
(* and a connection error or timeout of the third attempt is raised to the *)
(* caller.                                                                 *)
C18_RetryTerminates ==
    /\ []C18_AtMostThreeAttempts
    /\ (UsesRetryFunction /\ Requesting) ~> RequestOver

\* three attempts have failed with two sleeps between them, and the third
\* failure is what the caller got
C18_Witness ==
    /\ UsesRetryFunction
    /\ http_pc = "except"
    /\ Len(net_log) = 5
    /\ RequestPositions = {1, 3, 5}
    /\ net_log[2].seconds = 1
    /\ net_log[4].seconds = 2
    /\ ConnectionFailure(5)
    /\ response = net_log[5].outcome

(* C19: every task that calls the remote API retries a request that failed *)
(* with a connection error or timeout: it reports such a failure only      *)
(* after 3 attempts.                                                       *)
C19_EveryTaskRetries ==
    (/\ http_pc = "raised"
     /\ Len(net_log) > 0
     /\ ConnectionFailure(Len(net_log))) => RequestsSent = 3

\* C19 of the three tasks that use _make_request_with_retry
C19_RetryTasksRetry == UsesRetryFunction => C19_EveryTaskRetries

\* financial_report_analyzer has reported the connection failure of its
\* only request
C19_Witness ==
    /\ http_task = "financial_report_analyzer"
    /\ http_pc = "raised"
    /\ http_outputs.message = "Request failed"
    /\ Len(net_log) = 1
    /\ ConnectionFailure(1)

(* C20: _make_request_with_retry retries only on connection errors and     *)
(* timeouts: a request that yields a response, whatever its status code,   *)
(* or another exception is the last request, and that response is what is  *)
(* returned, that exception what is raised.                                *)
C20_RetryOnlyConnectionFailures ==
    UsesRetryFunction =>
        /\ \A k \in RequestPositions :
               ~ConnectionFailure(k) =>
                   /\ k = Len(net_log)
                   /\ response = net_log[k].outcome
                   /\ RequestOver
                   /\ IF "raised" \in DOMAIN net_log[k].outcome
                      THEN http_pc \in {"except", "raised"}
                      ELSE http_pc # "except"
        /\ \A k \in RequestPositions :
               k > 1 => ConnectionFailure(
                            CHOOSE j \in RequestPositions :
                                /\ j < k
                                /\ \A i \in RequestPositions : i < k => i <= j)

\* an error response of the first attempt has been returned to main, and
\* no other request was made
C20_Witness ==
    /\ UsesRetryFunction
    /\ http_pc = "respond"
    /\ Len(net_log) = 1
    /\ response.status_code \in {429, 503}

---------------------------------------------------------------------------
(* Vocabulary of the properties about the ends of the API tasks. *)

\* main has returned
HttpReturned == http_pc = "done"

\* main has raised
HttpRaised == http_pc = "raised"

\* main has returned an output with status 'success'
ReturnedSuccess ==
    /\ HttpReturned
    /\ "status" \in DOMAIN http_outputs
    /\ http_outputs.status = "success"

\* main has raised a ValueError
RaisedValueError ==
    /\ HttpRaised
    /\ "raised" \in DOMAIN http_outputs
    /\ http_outputs.raised = "ValueError"

\* the server has answered the request
Answered == "status_code" \in DOMAIN response

\* the server has answered with the status code c
AnsweredWith(c) == Answered /\ response.status_code = c

(* C22: a call of get_cached_report's main that has ended has returned an  *)
(* output with status 'success', and then the server answered with status  *)
(* 200, or it has raised a ValueError; it never returns without an output, *)
(* whatever the status code of the answer.                                 *)
C22_OutputOrValueError ==
    http_task = "get_cached_report" =>
        /\ HttpReturned => ReturnedSuccess /\ AnsweredWith(200)
        /\ HttpRaised => RaisedValueError

\* C22 for the answers with status 200 or an error status (4xx, 5xx), and
\* for the requests that gave an exception
C22_ErrorStatusRaises ==
    (/\ http_task = "get_cached_report"
     /\ Answered => response.status_code = 200 \/ response.status_code >= 400)
        => C22_OutputOrValueError

\* get_cached_report has returned without an output after an answer with
\* status 204
C22_Witness ==
    /\ http_task = "get_cached_report"
    /\ HttpReturned
    /\ AnsweredWith(204)
    /\ "status" \notin DOMAIN http_outputs

(* C23: financial_report_analyzer returns status 'success' only after an   *)
(* answer with status 200; after an answer with another status code, and   *)
(* for an unsupported analysis_type, it raises a ValueError.               *)
C23_SuccessOnlyOn200 ==
    http_task = "financial_report_analyzer" =>
        /\ ReturnedSuccess => AnsweredWith(200)
        /\ (/\ HttpReturned \/ HttpRaised
            /\ \/ http_params.analysis_type = "unknown"
               \/ Answered /\ response.status_code # 200)
               => RaisedValueError

\* C23 for an unsupported analysis_type and for the error statuses
C23_ErrorsRaise ==
    (/\ http_task = "financial_report_analyzer"
     /\ HttpReturned \/ HttpRaised
     /\ \/ http_params.analysis_type = "unknown"
        \/ Answered /\ response.status_code >= 400)
        => RaisedValueError /\ (http_params.analysis_type = "unknown"
                                   => Len(net_log) = 0)

\* financial_report_analyzer has returned 'success' after an answer with
\* status 204
C23_Witness ==
    /\ http_task = "financial_report_analyzer"
    /\ ReturnedSuccess
    /\ AnsweredWith(204)

---------------------------------------------------------------------------
(* The md_to_pdf task: src/tasks/md_to_pdf/__init__.py.  The conversion of *)
(* the Markdown text and the layout of the PDF are the work of the         *)
(* markdown and weasyprint libraries; the model keeps whether they succeed *)
(* and what is left on the disk.                                           *)

\* str.endswith(suffix)
endswith(s, suffix) ==
    /\ Len(s) >= Len(suffix)
    /\ SubSeq(s, Len(s) - Len(suffix) + 1, Len(s)) = suffix

PdfSuffix == <<".", "p", "d", "f">>

\* what write_pdf leaves in the file it wrote, and in a file it began
PdfBytes == <<"%", "P", "D", "F">>
PartialBytes == <<"%">>

\* md_content: absent, blank, a document
MdContents == {None, <<" ", "\n">>, <<"#", " ", "T">>}

\* md_file_path: absent, a file that exists, a file that does not
MdFile == <<"i", "n", ".", "m", "d">>
MdFilePaths == {None, MdFile, <<"n", "o", ".", "m", "d">>}

\* output_filename: null, without and with the suffix; the key may also be
\* missing from the inputs
PdfOutputFilenames == {None, <<"d", "o", "c">>, <<"d", ".", "p", "d", "f">>}

\* save_path: absent, a bare file name, a file in a directory, a directory
PdfSavePaths ==
    { None,
      <<"r", ".", "p", "d", "f">>,
      <<"o", "u", "t", "/", "r", ".", "p", "d", "f">>,
      <<"o", "u", "t">> }

PdfParamsSet ==
    LET full == [md_content : MdContents,
                 md_file_path : MdFilePaths,
                 output_filename : PdfOutputFilenames,
                 save_path : PdfSavePaths]
        keys == {"md_content", "md_file_path", "save_path"}
    IN  full \cup {[k \in keys |-> p[k]] : p \in full}

\* what the libraries and the operating system do in one run: md.convert
\* raises or not, os.makedirs of a named directory is refused or not, and
\* write_pdf writes the file, writes it only without the style sheet,
\* fails before it opens the file, or fails after it began the file
PdfEnvironments ==
    [markdown_fails : BOOLEAN,
     makedirs_fails : BOOLEAN,
     write_pdf : {"ok", "css fails", "fails", "fails partial"}]

InitPdf ==
    /\ MdIdle
    /\ PeriodsIdle
    /\ HttpIdle
    /\ pdf_params \in PdfParamsSet
    /\ pdf_env \in PdfEnvironments
    /\ pdf_pc = "main"
    /\ pdf_md_content = <<>>
    /\ pdf_path = <<>>
    /\ \E text \in MdContents \ {None} :
           pdf_fs = with_file(EmptyFs, MdFile, text)
    /\ pdf_error = <<>>
    /\ pdf_outputs = <<>>

\* an exception raised inside the try of line 46: control goes to line 198
PdfRaise(exc, message) ==
    /\ pdf_pc' = "except"
    /\ pdf_error' = [raised |-> exc, message |-> message]

FileNotFoundMessage ==
    <<"M", "a", "r", "k", "d", "o", "w", "n", " ", "f", "i", "l", "e", " ",
      "n", "o", "t", " ", "f", "o", "u", "n", "d", ":", " ">>

NoContentMessage ==
    <<"E", "i", "t", "h", "e", "r", " ", "m", "d", "_", "c", "o", "n", "t",
      "e", "n", "t", " ", "o", "r", " ", "m", "d", "_", "f", "i", "l", "e",
      "_", "p", "a", "t", "h", " ", "m", "u", "s", "t", " ", "b", "e", " ",
      "p", "r", "o", "v", "i", "d", "e", "d">>

EmptyContentMessage ==
    <<"M", "a", "r", "k", "d", "o", "w", "n", " ", "c", "o", "n", "t", "e",
      "n", "t", " ", "c", "a", "n", "n", "o", "t", " ", "b", "e", " ", "e",
      "m", "p", "t", "y">>

\* main, lines 47-60: the Markdown text, from the inputs or from the file
PdfGetContent ==
    /\ UNCHANGED <<md_vars, periods_vars, http_vars>>
    /\ pdf_pc = "main"
    /\ LET given == DictGet(pdf_params, "md_content", None)
           path == DictGet(pdf_params, "md_file_path", None)
           found == IF Truthy(given) THEN given
                    ELSE IF ~Truthy(path)
                    THEN Raised("none")
                    ELSE IF path \notin DOMAIN pdf_fs.files
                    THEN Raised("not found")
                    ELSE pdf_fs.files[path]
       IN  IF IsRaised(found)
           THEN /\ IF found.raised = "not found"
                   THEN PdfRaise("ValueError", FileNotFoundMessage \o path)
                   ELSE PdfRaise("ValueError", NoContentMessage)
                /\ UNCHANGED pdf_md_content
           ELSE /\ pdf_md_content' = found
                /\ IF strip(found) = <<>>
                   THEN PdfRaise("ValueError", EmptyContentMessage)
                   ELSE pdf_pc' = "render" /\ UNCHANGED pdf_error
    /\ UNCHANGED <<pdf_params, pdf_env, pdf_path, pdf_fs, pdf_outputs>>

MarkdownErrorMessage ==
    <<"m", "a", "r", "k", "d", "o", "w", "n", " ", "e", "r", "r", "o", "r">>

\* main, lines 62-156: md.convert, the table of contents, the style sheet
\* and the HTML document
PdfRender ==
    /\ UNCHANGED <<md_vars, periods_vars, http_vars>>
    /\ pdf_pc = "render"
    /\ IF pdf_env.markdown_fails
       THEN PdfRaise("Exception", MarkdownErrorMessage)
       ELSE pdf_pc' = "path" /\ UNCHANGED pdf_error
    /\ UNCHANGED <<pdf_params, pdf_env, pdf_md_content, pdf_path, pdf_fs,
                   pdf_outputs>>

DefaultDocument == <<"d", "o", "c", "u", "m", "e", "n", "t">>

\* the suffix is appended always
with_pdf_suffix_always(name) == name \o PdfSuffix

\* lines 160-161: '.pdf' appended unless the name ends with it
with_pdf_suffix(name) ==
    IF ~endswith(name, PdfSuffix) THEN name \o PdfSuffix ELSE name

\* a save_path is used as it is
resolve_pdf_path_verbatim(save_path, output_filename) ==
    IF Truthy(save_path) THEN save_path
    ELSE path_join(storage_dir, output_filename)

\* lines 163-171: the path of the PDF
resolve_pdf_path(save_path, output_filename) ==
    IF Truthy(save_path)
    THEN IF ~endswith(save_path, PdfSuffix)
         THEN path_join(save_path, output_filename)
         ELSE save_path
    ELSE path_join(storage_dir, output_filename)

NoneEndswithMessage ==
    <<"'", "N", "o", "n", "e", "T", "y", "p", "e", "'", " ", "o", "b", "j",
      "e", "c", "t", " ", "h", "a", "s", " ", "n", "o", " ", "a", "t", "t",
      "r", "i", "b", "u", "t", "e", " ", "'", "e", "n", "d", "s", "w", "i",
      "t", "h", "'">>

PermissionMessage ==
    <<"[", "E", "r", "r", "n", "o", " ", "1", "3", "]", " ", "P", "e", "r",
      "m", "i", "s", "s", "i", "o", "n", " ", "d", "e", "n", "i", "e", "d",
      ":", " ">>

\* main, lines 158-171: output_filename and pdf_path; a null
\* output_filename has no endswith, and os.makedirs of the storage
\* directory may be refused
PdfResolvePath ==
    /\ UNCHANGED <<md_vars, periods_vars, http_vars>>
    /\ pdf_pc = "path"
    /\ LET output_filename ==
               DictGet(pdf_params, "output_filename", DefaultDocument)
           save_path == DictGet(pdf_params, "save_path", None)
       IN  IF output_filename = None
           THEN /\ PdfRaise("AttributeError", NoneEndswithMessage)
                /\ UNCHANGED <<pdf_path, pdf_fs>>
           ELSE IF ~Truthy(save_path) /\ pdf_env.makedirs_fails
           THEN /\ PdfRaise("PermissionError",
                            PermissionMessage \o storage_dir)
                /\ UNCHANGED <<pdf_path, pdf_fs>>
           ELSE /\ pdf_path' = resolve_pdf_path(save_path,
                                   with_pdf_suffix(output_filename))
                /\ pdf_fs' = IF Truthy(save_path) THEN pdf_fs
                             ELSE makedirs(pdf_fs, storage_dir)
                /\ pdf_pc' = "mkdir"
                /\ UNCHANGED pdf_error
    /\ UNCHANGED <<pdf_params, pdf_env, pdf_md_content, pdf_outputs>>

NoSuchDirectoryMessage ==
    <<"[", "E", "r", "r", "n", "o", " ", "2", "]", " ", "N", "o", " ", "s",
      "u", "c", "h", " ", "f", "i", "l", "e", " ", "o", "r", " ", "d", "i",
      "r", "e", "c", "t", "o", "r", "y", ":", " ", "'", "'">>

\* main, line 174: os.makedirs(os.path.dirname(pdf_path), exist_ok=True);
\* os.makedirs('') raises FileNotFoundError
PdfMakeDir ==
    /\ UNCHANGED <<md_vars, periods_vars, http_vars>>
    /\ pdf_pc = "mkdir"
    /\ LET dir_path == path_dirname(pdf_path)
       IN  IF dir_path = <<>>
           THEN /\ PdfRaise("FileNotFoundError", NoSuchDirectoryMessage)
                /\ UNCHANGED pdf_fs
           ELSE IF pdf_env.makedirs_fails /\ dir_path \notin pdf_fs.dirs
           THEN /\ PdfRaise("PermissionError", PermissionMessage \o dir_path)
                /\ UNCHANGED pdf_fs
           ELSE /\ pdf_fs' = makedirs(pdf_fs, dir_path)
                /\ pdf_pc' = "write"
                /\ UNCHANGED pdf_error
    /\ UNCHANGED <<pdf_params, pdf_env, pdf_md_content, pdf_path,
                   pdf_outputs>>

GenerationFailedMessage ==
    <<"P", "D", "F", " ", "g", "e", "n", "e", "r", "a", "t", "i", "o", "n",
      " ", "f", "a", "i", "l", "e", "d", ":", " ">>

\* main, lines 177-187: write_pdf with the style sheet, then without it,
\* then ValueError
PdfWrite ==
    /\ UNCHANGED <<md_vars, periods_vars, http_vars>>
    /\ pdf_pc = "write"
    /\ IF pdf_env.write_pdf \in {"ok", "css fails"}
       THEN /\ pdf_fs' = with_file(pdf_fs, pdf_path, PdfBytes)
            /\ pdf_pc' = "return"
            /\ UNCHANGED pdf_error
       ELSE /\ PdfRaise("ValueError", GenerationFailedMessage)
            /\ pdf_fs' = IF pdf_env.write_pdf = "fails partial"
                         THEN with_file(pdf_fs, pdf_path, PartialBytes)
                         ELSE pdf_fs
    /\ UNCHANGED <<pdf_params, pdf_env, pdf_md_content, pdf_path,
                   pdf_outputs>>

SuccessPrefix ==
    <<"S", "u", "c", "c", "e", "s", "s", "f", "u", "l", "l", "y", " ", "c",
      "o", "n", "v", "e", "r", "t", "e", "d", " ", "M", "a", "r", "k", "d",
      "o", "w", "n", " ", "t", "o", " ", "P", "D", "F", ":", " ">>

\* main, lines 190-196
PdfReturn ==
    /\ UNCHANGED <<md_vars, periods_vars, http_vars>>
    /\ pdf_pc = "return"
    /\ pdf_outputs' = [pdf_path |-> pdf_path,
                       status |-> SuccessPrefix \o pdf_path,
                       file_size |-> Len(pdf_fs.files[pdf_path])]
    /\ pdf_pc' = "done"
    /\ UNCHANGED <<pdf_params, pdf_env, pdf_md_content, pdf_path, pdf_fs,
                   pdf_error>>

ErrorPrefix ==
    <<"E", "r", "r", "o", "r", " ", "c", "o", "n", "v", "e", "r", "t", "i",
      "n", "g", " ", "M", "a", "r", "k", "d", "o", "w", "n", " ", "t", "o",
      " ", "P", "D", "F", ":", " ">>

\* the status is the message of the exception alone
error_outputs_bare(e) ==
    [pdf_path |-> <<>>, status |-> e.message, file_size |-> 0]

\* lines 199-205: the output of a failed conversion
error_outputs(e) ==
    [pdf_path |-> <<>>, status |-> ErrorPrefix \o e.message, file_size |-> 0]

\* main, lines 198-205: every exception becomes an output
PdfExcept ==
    /\ UNCHANGED <<md_vars, periods_vars, http_vars>>
    /\ pdf_pc = "except"
    /\ pdf_outputs' = error_outputs(pdf_error)
    /\ pdf_pc' = "done"
    /\ UNCHANGED <<pdf_params, pdf_env, pdf_md_content, pdf_path, pdf_fs,
                   pdf_error>>

NextPdf ==
    \/ PdfGetContent
    \/ PdfRender
    \/ PdfResolvePath
    \/ PdfMakeDir
    \/ PdfWrite
    \/ PdfReturn
    \/ PdfExcept

SpecPdf == InitPdf /\ [][NextPdf]_vars

---------------------------------------------------------------------------
(* Vocabulary of the properties about md_to_pdf. *)

\* main of md_to_pdf has returned
PdfEnded == pdf_pc = "done"

\* an input of md_to_pdf, None when the key is missing
PdfInput(key) ==
    IF key \in DOMAIN pdf_params THEN pdf_params[key] ELSE None

Given(v) == v # None /\ Len(v) > 0

\* the returned output is the one of a failed conversion
ErrorOutput ==
    /\ DOMAIN pdf_outputs = {"pdf_path", "status", "file_size"}
    /\ pdf_outputs.pdf_path = <<>>
    /\ pdf_outputs.file_size = 0
    /\ StartsWith(pdf_outputs.status,
           <<"E", "r", "r", "o", "r", " ", "c", "o", "n", "v", "e", "r",
             "t", "i", "n", "g", " ", "M", "a", "r", "k", "d", "o", "w",
             "n", " ", "t", "o", " ", "P", "D", "F", ":">>)

\* a PDF is on the disk at the path
PdfWrittenAt(path) ==
    /\ path \in DOMAIN pdf_fs.files
    /\ pdf_fs.files[path] = <<"%", "P", "D", "F">>

\* the returned output names a PDF that was written
SuccessOutput ==
    /\ DOMAIN pdf_outputs = {"pdf_path", "status", "file_size"}
    /\ Len(pdf_outputs.pdf_path) > 0
    /\ PdfWrittenAt(pdf_outputs.pdf_path)

\* the failures of one run: what is wrong with the inputs, the files, the
\* libraries or the operating system
NoMarkdownGiven ==
    ~Given(PdfInput("md_content")) /\ ~Given(PdfInput("md_file_path"))

MarkdownFileMissing ==
    /\ ~Given(PdfInput("md_content"))
    /\ Given(PdfInput("md_file_path"))
    /\ PdfInput("md_file_path") \notin DOMAIN pdf_fs.files

BlankContent ==
    \/ Given(PdfInput("md_content")) /\ ~NonBlank(PdfInput("md_content"))
    \/ /\ ~Given(PdfInput("md_content"))
       /\ Given(PdfInput("md_file_path"))
       /\ PdfInput("md_file_path") \in DOMAIN pdf_fs.files
       /\ ~NonBlank(pdf_fs.files[PdfInput("md_file_path")])

PathError ==
    \/ pdf_env.makedirs_fails
    \/ "output_filename" \in DOMAIN pdf_params
           /\ pdf_params.output_filename = None

RenderingError ==
    pdf_env.markdown_fails \/ pdf_env.write_pdf \in {"fails", "fails partial"}

(* C21: main of md_to_pdf never raises: a call that has ended has returned *)
(* either the output of a failure, with pdf_path empty, file_size 0 and a  *)
(* status that starts with 'Error converting Markdown to PDF:', or an      *)
(* output with a non-empty pdf_path at which a PDF was written; after      *)
(* every failure (no markdown given, file not found, blank content, path   *)
(* or rendering error) it is the output of a failure.                      *)
C21_ErrorsBecomeOutputs ==
    /\ pdf_pc \in {"idle", "main", "render", "path", "mkdir", "write",
                   "return", "except", "done"}
    /\ PdfEnded =>
           /\ ErrorOutput \/ SuccessOutput
           /\ (\/ NoMarkdownGiven
               \/ MarkdownFileMissing
               \/ BlankContent
               \/ PathError
               \/ RenderingError) => ErrorOutput

\* a conversion that failed while the PDF was being written has returned
\* the output of a failure, and the file it began is on the disk
C21_Witness ==
    /\ PdfEnded
    /\ pdf_env.write_pdf = "fails partial"
    /\ pdf_path \in DOMAIN pdf_fs.files
    /\ ~PdfWrittenAt(pdf_path)
    /\ ErrorOutput

\* the path C25 gives for the inputs
ExpectedPdfPath ==
    LET named == IF "output_filename" \in DOMAIN pdf_params
                 THEN pdf_params.output_filename
                 ELSE <<"d", "o", "c", "u", "m", "e", "n", "t">>
        n == Len(named)
        has_suffix == n >= 4 /\ <<named[n - 3], named[n - 2], named[n - 1],
                                  named[n]>> = <<".", "p", "d", "f">>
        file_name == IF has_suffix THEN named
                     ELSE named \o <<".", "p", "d", "f">>
        save_path == PdfInput("save_path")
        m == Len(save_path)
    IN  IF Given(save_path)
        THEN IF m >= 4 /\ <<save_path[m - 3], save_path[m - 2],
                            save_path[m - 1], save_path[m]>>
                              = <<".", "p", "d", "f">>
             THEN save_path
             ELSE save_path \o <<"/">> \o file_name
        ELSE
             <<"/", "o", "o", "m", "o", "l", "-", "d", "r", "i", "v", "e",
               "r", "/", "o", "o", "m", "o", "l", "-", "s", "t", "o", "r",
               "a", "g", "e">>
                 \o <<"/">> \o file_name

\* nothing but the path can make the run fail: the content is there, the
\* output_filename is a string, the libraries and the system do their work
PdfRunnable ==
    /\ ~NoMarkdownGiven
    /\ ~MarkdownFileMissing
    /\ ~BlankContent
    /\ ~PathError
    /\ ~pdf_env.markdown_fails
    /\ pdf_env.write_pdf \in {"ok", "css fails"}

(* C25: md_to_pdf writes the PDF at the resolved path: a save_path ending  *)
(* in '.pdf' unchanged, a bare file name included; another save_path       *)
(* joined with output_filename; the default storage directory joined with  *)
(* output_filename when there is no save_path; output_filename with '.pdf' *)
(* appended exactly when it does not end with it.                          *)
C25_PdfAtResolvedPath ==
    (PdfEnded /\ PdfRunnable) =>
        /\ pdf_outputs.pdf_path = ExpectedPdfPath
        /\ PdfWrittenAt(ExpectedPdfPath)

\* C25 for the paths that have a directory part
C25_WithDirectoryPart ==
    (\E i \in 1..Len(ExpectedPdfPath) : ExpectedPdfPath[i] = "/")
        => C25_PdfAtResolvedPath

\* a run with a bare file name as save_path has ended in the output of a
\* failure, and no file was written
C25_Witness ==
    /\ PdfEnded
    /\ PdfRunnable
    /\ PdfInput("save_path") = <<"r", ".", "p", "d", "f">>
    /\ ErrorOutput
    /\ pdf_error.raised = "FileNotFoundError"
    /\ ExpectedPdfPath \notin DOMAIN pdf_fs.files

=============================================================================
